---- MODULE Spec2Model ----
(***************************************************************************)
(* Model of the lock-free SPSC ring buffer of src/ringbuffer.go.           *)
(*                                                                         *)
(* The pure part (cursor arithmetic, the byte copies of Write and Read,    *)
(* the views of ReadSlices) is written once as operators.  Two families    *)
(* of actions use it:                                                      *)
(*   - SeqSpec: calls run one after another, each call one action;         *)
(*   - Spec:    one producer and one consumer, each call split into its    *)
(*              atomic cursor loads and stores and its single byte copies. *)
(* uint64 is scaled down to CursorBits bits; all cursor arithmetic wraps.  *)
(*                                                                         *)
(* The single-threaded RingBuffer of the same package (NewRingBuffer) is   *)
(* modelled by RbSpec, on the same variables: buffer is rb.buf, size is    *)
(* rb.size (the bytes stored), readPos and writePos are indices into buf.  *)
(* PairSpec runs it beside the lock-free buffer (variable single);         *)
(* WritersSpec runs two threads calling Write on the lock-free buffer.     *)
(***************************************************************************)
EXTENDS Integers, Naturals, Sequences, FiniteSets, TLC

\* ------------------------------------------------------------------ bounds
\* Width of the unsigned cursor type (uint64 in the source, scaled down).
CursorBits == 4
\* Largest size requested from New in the sequential specification.
MaxRequest == 7
\* Size requested from New in the concurrent specification.
ConcRequest == 3
\* Number of bytes the producer thread has to send in the concurrent run.
MaxBytes == 18
\* Longest destination slice the consumer thread passes to Read.
MaxDst == 4
\* Longest data / destination slice passed to a call in the sequential run.
MaxLen == 9
\* Largest size requested from New in the specification with Reset.
ResetRequest == 3
\* Longest data / destination slice passed to a call in the run with Reset.
ResetLen == 4
\* Largest capacity asked of NewRingBuffer (the single-threaded buffer).
MaxCapacity == 5
\* Longest data slice, destination slice and count n passed to the
\* single-threaded buffer.
RbLen == 6
\* Number of bytes the caller of the single-threaded buffer has to write.
RbBytes == 10
\* Number of calls made after a Reset, and on a new buffer, to compare the two.
ObsDepth == 3
\* Number of bytes the producer has to send in the linearizability run.
LinBytes == 10
\* Two threads calling Write: calls per thread, and bytes per call.
WriterCalls == 2
WriterLen == 2
\* The two buffers side by side: largest capacity asked for, longest data and
\* destination, and number of bytes the caller has to offer.
PairCapacity == 4
PairLen == 5
PairBytes == 8

\* ------------------------------------------------------- unsigned integers
Pow2(k) == 2 ^ k

Modulus == Pow2(CursorBits)

\* Period of the byte pattern the producer sends (byte i is 1 + i % StampMod).
\* The tests send byte(i % 256); as 256 divides 2^64, the period divides Modulus.
StampMod == Modulus

\* Wrapping of an arithmetic result to the width of the cursor type.
U(x) == x % Modulus

Min(a, b) == IF a < b THEN a ELSE b

RECURSIVE BitAnd(_, _)
BitAnd(a, b) ==
    IF a = 0 \/ b = 0 THEN 0
    ELSE (a % 2) * (b % 2) + 2 * BitAnd(a \div 2, b \div 2)

RECURSIVE BitOr(_, _)
BitOr(a, b) ==
    IF a = 0 THEN b
    ELSE IF b = 0 THEN a
    ELSE (IF a % 2 = 1 \/ b % 2 = 1 THEN 1 ELSE 0) + 2 * BitOr(a \div 2, b \div 2)

RECURSIVE Shr(_, _)
Shr(a, k) == IF k = 0 \/ a = 0 THEN a ELSE Shr(a \div 2, k - 1)

OrShr(n, k) == BitOr(n, Shr(n, k))

\* Faulty variant of nextPowerOf2: the decrement before the smear is missing,
\* so a power of two is rounded up to the next one.
nextPowerOf2NoDec(n) ==
    IF n = 0 THEN 1
    ELSE U(OrShr(OrShr(OrShr(OrShr(OrShr(OrShr(n, 1), 2), 4), 8), 16), 32) + 1)

\* nextPowerOf2: n--, smear the top bit right, n++.
nextPowerOf2(n) ==
    IF n = 0 THEN 1
    ELSE U(OrShr(OrShr(OrShr(OrShr(OrShr(OrShr(U(n - 1), 1), 2), 4), 8), 16), 32) + 1)

\* ------------------------------------------------------------------- state
VARIABLES
    buffer,     \* rb.buffer: function 0..size-1 -> byte
    size,       \* rb.size
    mask,       \* rb.mask
    writePos,   \* rb.writePos
    readPos,    \* rb.readPos
    prod,       \* the producer thread: position in its loop and in Write, locals
    cons,       \* the consumer thread: position in its loop and in Read/Consume, locals
    seqno,      \* position of the producer in its byte pattern (bytes accepted % StampMod)
    written,    \* concurrent run: all bytes accepted by successful Writes, in order
    got,        \* concurrent run: all bytes returned to the consumer, in order
    fifo,       \* sequential run: bytes accepted and not yet returned, in order
    ret,        \* sequential run: the last call, its arguments, results and pre-state
    lin,        \* linearizability run: the sequential orders the history so far allows
    single      \* equivalence run: the single-threaded RingBuffer fed the same calls

vars == <<buffer, size, mask, writePos, readPos, prod, cons, seqno, written, got, fifo, ret,
          lin, single>>

rbVars == <<buffer, size, mask, writePos, readPos>>

ErrInsufficientSpace == "ErrInsufficientSpace"

ErrInsufficientData == "ErrInsufficientData"

Nil == "nil"

\* The nil *RingBuffer.
NilRb == [nil |-> TRUE]

\* ------------------------------------------------------------ pure helpers
\* The i-th byte of the stream the producer sends (i counted from 0).
Stamp(i) == 1 + (i % StampMod)

\* A data slice of length L continuing the stream after s accepted bytes.
Data(s, L) == [k \in 1..L |-> Stamp(s + k - 1)]

\* make([]byte, n): n zero bytes, indexed from 0.
MakeBytes(n) == [i \in 0..(n - 1) |-> 0]

\* A zeroed destination slice of length M, as a sequence.
MakeDst(M) == [k \in 1..M |-> 0]

\* New(size)
New(n) ==
    LET s == nextPowerOf2(n)
    IN  [buffer |-> MakeBytes(s), size |-> s, mask |-> U(s - 1)]

\* Faulty variant of Size: the mask is returned in place of the size.
SizeOfMask(sz) == U(sz - 1)

\* RingBuffer.Size
Size(sz) == sz

\* Faulty variant of AvailableWrite: one slot is always kept free.
AvailableWriteKeepOne(sz, w, r) == U(sz - 1 - U(w - r))

\* Faulty variant of AvailableWrite: the free space is over-counted by one.
AvailableWriteOver(sz, w, r) == U(sz - U(w - r) + 1)

\* AvailableWrite from the two loaded cursors.
AvailableWrite(sz, w, r) == U(sz - U(w - r))

\* Faulty variant of AvailableRead: the difference is taken as of plain
\* integers, and counts as 0 once writePos has wrapped and readPos has not.
AvailableReadNoWrap(w, r) == IF w >= r THEN w - r ELSE 0

\* Faulty variant of AvailableRead: the unread data is over-counted by one.
AvailableReadOver(w, r) == U(w - r + 1)

\* AvailableRead from the two loaded cursors.
AvailableRead(w, r) == U(w - r)

\* cursor & rb.mask
Index(pos, msk) == BitAnd(pos, msk)

\* copy(dst[dLo:dHi], src[sLo:sHi]) as the list of its single byte copies,
\* each <<index in dst, index in src>>; copy moves min(len(dst), len(src)) bytes.
CopyPairs(dLo, dHi, sLo, sHi) ==
    LET n == Min(dHi - dLo, sHi - sLo)
    IN  [k \in 1..(IF n > 0 THEN n ELSE 0) |-> <<dLo + k - 1, sLo + k - 1>>]

\* Faulty variant of WriteCopies: after the wrap the second copy starts again
\* at data[0] instead of data[firstChunk].
WriteCopiesBadSplit(start, end, dataLen, sz) ==
    IF end > start
    THEN CopyPairs(start, end, 0, dataLen)
    ELSE LET firstChunk == U(sz - start)
         IN  CopyPairs(start, sz, 0, firstChunk) \o CopyPairs(0, end, 0, dataLen)

\* Faulty variant of WriteCopies: end = start is taken for the contiguous
\* case, in which a Write of the whole storage copies nothing.
WriteCopiesEndEqual(start, end, dataLen, sz) ==
    IF end >= start
    THEN CopyPairs(start, end, 0, dataLen)
    ELSE LET firstChunk == U(sz - start)
         IN  CopyPairs(start, sz, 0, firstChunk) \o CopyPairs(0, end, firstChunk, dataLen)

\* The byte copies of Write, in order: <<storage index, data index (from 0)>>.
WriteCopies(start, end, dataLen, sz) ==
    IF end > start
    THEN CopyPairs(start, end, 0, dataLen)
    ELSE LET firstChunk == U(sz - start)
         IN  CopyPairs(start, sz, 0, firstChunk) \o CopyPairs(0, end, firstChunk, dataLen)

\* Faulty variant of ReadCopies: the copy of the wrapped part is forgotten.
ReadCopiesNoWrap(start, end, toRead, sz) ==
    IF end > start
    THEN CopyPairs(0, toRead, start, end)
    ELSE CopyPairs(0, U(sz - start), start, sz)

\* The byte copies of Read, in order: <<destination index (from 0), storage index>>.
ReadCopies(start, end, toRead, sz) ==
    IF end > start
    THEN CopyPairs(0, toRead, start, end)
    ELSE LET firstChunk == U(sz - start)
         IN  CopyPairs(0, firstChunk, start, sz) \o CopyPairs(firstChunk, toRead, 0, end)

\* Storage after the byte copies cp of Write have been done with data.
RECURSIVE StoreAll(_, _, _)
StoreAll(buf, data, cp) ==
    IF cp = <<>> THEN buf
    ELSE StoreAll([buf EXCEPT ![Head(cp)[1]] = data[Head(cp)[2] + 1]], data, Tail(cp))

\* Destination after the byte copies cp of Read have been done from buf.
RECURSIVE LoadAll(_, _, _)
LoadAll(dst, buf, cp) ==
    IF cp = <<>> THEN dst
    ELSE LoadAll([dst EXCEPT ![Head(cp)[1] + 1] = buf[Head(cp)[2]]], buf, Tail(cp))

\* A view into storage: rb.buffer[lo:hi] as <<lo, hi>>, or Nil.
View(lo, hi) == <<lo, hi>>

ViewLen(v) == IF v = Nil THEN 0 ELSE v[2] - v[1]

\* The bytes seen through a view, in order.
ViewBytes(buf, v) == [k \in 1..ViewLen(v) |-> buf[v[1] + k - 1]]

\* ------------------------------------------- the calls, as pure functions
\* Each takes the buffer's fields and the arguments and gives the results
\* and the fields the call assigns.

\* Faulty variant of Write: when the data does not fit, the part that fits is
\* written (a short write, as a general io.Writer may do).
WriteResultPartial(buf, sz, msk, w, r, data) ==
    LET available == AvailableWrite(sz, w, r)
        n         == Min(U(Len(data)), available)
        start     == Index(w, msk)
        end       == Index(U(w + n), msk)
        err       == IF U(Len(data)) > available THEN ErrInsufficientSpace ELSE Nil
    IN  IF n = 0
        THEN [n |-> 0, err |-> err, buffer |-> buf, writePos |-> w]
        ELSE [n |-> n, err |-> err,
              buffer |-> StoreAll(buf, SubSeq(data, 1, n), WriteCopies(start, end, n, sz)),
              writePos |-> U(w + n)]

\* RingBuffer.Write
WriteResult(buf, sz, msk, w, r, data) ==
    LET dataLen   == U(Len(data))
        available == AvailableWrite(sz, w, r)
        start     == Index(w, msk)
        end       == Index(U(w + dataLen), msk)
    IN  IF dataLen = 0
        THEN [n |-> 0, err |-> Nil, buffer |-> buf, writePos |-> w]
        ELSE IF dataLen > available
        THEN [n |-> 0, err |-> ErrInsufficientSpace, buffer |-> buf, writePos |-> w]
        ELSE [n |-> dataLen, err |-> Nil,
              buffer |-> StoreAll(buf, data, WriteCopies(start, end, dataLen, sz)),
              writePos |-> U(w + dataLen)]

\* Faulty variant of Read: all or nothing, as Read of the single-threaded buffer.
ReadResultAllOrNothing(buf, sz, msk, w, r, dst) ==
    LET dataLen   == U(Len(dst))
        available == AvailableRead(w, r)
        start     == Index(r, msk)
        end       == Index(U(r + dataLen), msk)
    IN  IF dataLen = 0
        THEN [n |-> 0, err |-> Nil, out |-> dst, readPos |-> r]
        ELSE IF dataLen > available
        THEN [n |-> 0, err |-> ErrInsufficientData, out |-> dst, readPos |-> r]
        ELSE [n |-> dataLen, err |-> Nil,
              out |-> LoadAll(dst, buf, ReadCopies(start, end, dataLen, sz)),
              readPos |-> U(r + dataLen)]

\* Faulty variant of Read: an empty buffer gives (0, nil) instead of an error.
ReadResultEmptyNil(buf, sz, msk, w, r, dst) ==
    LET dataLen   == U(Len(dst))
        available == AvailableRead(w, r)
        toRead    == Min(dataLen, available)
        start     == Index(r, msk)
        end       == Index(U(r + toRead), msk)
    IN  IF dataLen = 0 \/ available = 0
        THEN [n |-> 0, err |-> Nil, out |-> dst, readPos |-> r]
        ELSE [n |-> toRead, err |-> Nil,
              out |-> LoadAll(dst, buf, ReadCopies(start, end, toRead, sz)),
              readPos |-> U(r + toRead)]

\* Faulty variant of Read: the empty-buffer check comes before the
\* zero-length check.
ReadResultCheckOrder(buf, sz, msk, w, r, dst) ==
    LET dataLen   == U(Len(dst))
        available == AvailableRead(w, r)
        toRead    == Min(dataLen, available)
        start     == Index(r, msk)
        end       == Index(U(r + toRead), msk)
    IN  IF available = 0
        THEN [n |-> 0, err |-> ErrInsufficientData, out |-> dst, readPos |-> r]
        ELSE IF dataLen = 0
        THEN [n |-> 0, err |-> Nil, out |-> dst, readPos |-> r]
        ELSE [n |-> toRead, err |-> Nil,
              out |-> LoadAll(dst, buf, ReadCopies(start, end, toRead, sz)),
              readPos |-> U(r + toRead)]

\* RingBuffer.Read; dst is the caller's slice before the call.
ReadResult(buf, sz, msk, w, r, dst) ==
    LET dataLen   == U(Len(dst))
        available == AvailableRead(w, r)
        toRead    == Min(dataLen, available)
        start     == Index(r, msk)
        end       == Index(U(r + toRead), msk)
    IN  IF dataLen = 0
        THEN [n |-> 0, err |-> Nil, out |-> dst, readPos |-> r]
        ELSE IF available = 0
        THEN [n |-> 0, err |-> ErrInsufficientData, out |-> dst, readPos |-> r]
        ELSE [n |-> toRead, err |-> Nil,
              out |-> LoadAll(dst, buf, ReadCopies(start, end, toRead, sz)),
              readPos |-> U(r + toRead)]

\* Faulty variant of SlicesOf: the data counts as contiguous when end = start.
SlicesOfEndEqual(start, end, available, sz) ==
    IF end >= start
    THEN [first |-> View(start, end), second |-> Nil, total |-> available]
    ELSE [first |-> View(start, sz), second |-> View(0, end), total |-> available]

\* The views ReadSlices returns once start, end and available are known.
SlicesOf(start, end, available, sz) ==
    IF end > start
    THEN [first |-> View(start, end), second |-> Nil, total |-> available]
    ELSE [first |-> View(start, sz), second |-> View(0, end), total |-> available]

\* Faulty variant of PeekOf: the view always runs to the end of storage.
PeekOfToEnd(start, end, sz) == View(start, sz)

\* The view PeekContiguous returns once start and end are known.
PeekOf(start, end, sz) ==
    IF end > start THEN View(start, end) ELSE View(start, sz)

\* Faulty variant of ReadSlices: the check for an empty buffer is missing.
ReadSlicesResultNoEmptyCheck(sz, msk, w, r) ==
    LET available == AvailableRead(w, r)
        start     == Index(r, msk)
        end       == Index(U(r + available), msk)
    IN  SlicesOf(start, end, available, sz)

\* RingBuffer.ReadSlices
ReadSlicesResult(sz, msk, w, r) ==
    LET available == AvailableRead(w, r)
        start     == Index(r, msk)
        end       == Index(U(r + available), msk)
    IN  IF available = 0
        THEN [first |-> Nil, second |-> Nil, total |-> 0]
        ELSE SlicesOf(start, end, available, sz)

\* RingBuffer.PeekContiguous
PeekContiguousResult(sz, msk, w, r) ==
    LET available == AvailableRead(w, r)
        start     == Index(r, msk)
        end       == Index(U(r + available), msk)
    IN  IF available = 0 THEN Nil ELSE PeekOf(start, end, sz)

\* Faulty variant of Consume: asked for more than there is, it consumes what
\* there is instead of refusing.
ConsumeResultClamp(w, r, n) ==
    IF n = 0 THEN [err |-> Nil, readPos |-> r]
    ELSE [err |-> Nil, readPos |-> U(r + Min(n, AvailableRead(w, r)))]

\* Faulty variant of Consume: n is stored as the new position instead of
\* being added to the old one.
ConsumeResultAbsolute(w, r, n) ==
    IF n = 0 THEN [err |-> Nil, readPos |-> r]
    ELSE IF n > AvailableRead(w, r) THEN [err |-> ErrInsufficientData, readPos |-> r]
    ELSE [err |-> Nil, readPos |-> U(n)]

\* RingBuffer.Consume
ConsumeResult(w, r, n) ==
    IF n = 0 THEN [err |-> Nil, readPos |-> r]
    ELSE IF n > AvailableRead(w, r) THEN [err |-> ErrInsufficientData, readPos |-> r]
    ELSE [err |-> Nil, readPos |-> U(r + n)]

\* ------------------------------------------------- threads, when at rest
\* Faulty variant of Reset: only the read position is reset.
ResetResultReadOnly(w, r) == [readPos |-> 0, writePos |-> w]

\* RingBuffer.Reset: the values it stores, whatever the cursors w and r were.
ResetResult(w, r) == [readPos |-> 0, writePos |-> 0]

IdleProd == [pc |-> "idle"]

IdleCons == [pc |-> "idle"]

\* What a call's record keeps of the state before the call.
Snapshot ==
    [buffer |-> buffer, writePos |-> writePos, readPos |-> readPos, fifo |-> fifo,
     size |-> size]

Drop(s, n) == SubSeq(s, n + 1, Len(s))

Take(s, n) == SubSeq(s, 1, Min(n, Len(s)))

\* ------------------------------------------------- sequential specification
SeqInit ==
    \E n \in 0..MaxRequest :
        LET rb == New(n)
        IN  /\ buffer = rb.buffer
            /\ size = rb.size
            /\ mask = rb.mask
            /\ writePos = 0
            /\ readPos = 0
            /\ prod = IdleProd
            /\ cons = IdleCons
            /\ seqno = 0
            /\ written = <<>>
            /\ got = <<>>
            /\ fifo = <<>>
            /\ lin = {}
            /\ single = NilRb
            /\ ret = [op |-> "New", arg |-> n, n |-> 0, err |-> Nil, out |-> <<>>,
                      pre |-> [buffer |-> rb.buffer, writePos |-> 0, readPos |-> 0, fifo |-> <<>>]]

\* rb.Write(data), data the next L bytes of the producer's pattern.
SeqWrite ==
    \E L \in 0..MaxLen :
        LET data == Data(seqno, L)
            res  == WriteResult(buffer, size, mask, writePos, readPos, data)
        IN  /\ buffer' = res.buffer
            /\ writePos' = res.writePos
            /\ seqno' = (seqno + res.n) % StampMod
            /\ fifo' = IF res.err = Nil THEN fifo \o data ELSE fifo
            /\ ret' = [op |-> "Write", arg |-> L, n |-> res.n, err |-> res.err,
                       out |-> data, pre |-> Snapshot]
            /\ UNCHANGED <<size, mask, readPos, prod, cons, written, got, lin, single>>

\* rb.Read(dst), dst a fresh slice of length M.
SeqRead ==
    \E M \in 0..MaxLen :
        LET res == ReadResult(buffer, size, mask, writePos, readPos, MakeDst(M))
        IN  /\ readPos' = res.readPos
            /\ fifo' = Drop(fifo, res.n)
            /\ ret' = [op |-> "Read", arg |-> M, n |-> res.n, err |-> res.err,
                       out |-> res.out, pre |-> Snapshot]
            /\ UNCHANGED <<buffer, size, mask, writePos, prod, cons, seqno, written, got, lin,
                           single>>

\* rb.ReadSlices(); the views are kept with the call's results.
SeqReadSlices ==
    LET res == ReadSlicesResult(size, mask, writePos, readPos)
    IN  /\ ret' = [op |-> "ReadSlices", arg |-> 0, n |-> res.total, err |-> Nil,
                   out |-> <<res.first, res.second>>, pre |-> Snapshot]
        /\ UNCHANGED <<rbVars, prod, cons, seqno, written, got, fifo, lin, single>>

\* rb.Consume(n)
SeqConsume ==
    \E n \in 0..MaxLen :
        LET res == ConsumeResult(writePos, readPos, n)
        IN  /\ readPos' = res.readPos
            /\ fifo' = IF res.err = Nil THEN Drop(fifo, n) ELSE fifo
            /\ ret' = [op |-> "Consume", arg |-> n, n |-> 0, err |-> res.err,
                       out |-> <<>>, pre |-> Snapshot]
            /\ UNCHANGED <<buffer, size, mask, writePos, prod, cons, seqno, written, got, lin,
                           single>>

\* rb.PeekContiguous(); the view is kept with the call's results.
SeqPeekContiguous ==
    LET v == PeekContiguousResult(size, mask, writePos, readPos)
    IN  /\ ret' = [op |-> "PeekContiguous", arg |-> 0, n |-> ViewLen(v), err |-> Nil,
                   out |-> <<v, Nil>>, pre |-> Snapshot]
        /\ UNCHANGED <<rbVars, prod, cons, seqno, written, got, fifo, lin, single>>

SeqNext ==
    \/ SeqWrite
    \/ SeqRead
    \/ SeqReadSlices
    \/ SeqPeekContiguous
    \/ SeqConsume

SeqSpec == SeqInit /\ [][SeqNext]_vars

\* ---------------------------------------------------- reset specification
\* One caller that writes, reads and resets, no call in flight during a
\* Reset, as in TestReset.  After a Reset the caller starts its byte pattern
\* again; storage keeps the bytes of the earlier rounds.
ResetInit ==
    \E n \in 0..ResetRequest :
        LET rb == New(n)
        IN  /\ buffer = rb.buffer
            /\ size = rb.size
            /\ mask = rb.mask
            /\ writePos = 0
            /\ readPos = 0
            /\ prod = IdleProd
            /\ cons = IdleCons
            /\ seqno = 0
            /\ written = <<>>
            /\ got = <<>>
            /\ fifo = <<>>
            /\ lin = {}
            /\ single = NilRb
            /\ ret = [op |-> "New", arg |-> n, n |-> 0, err |-> Nil, out |-> <<>>,
                      pre |-> [buffer |-> rb.buffer, writePos |-> 0, readPos |-> 0,
                               fifo |-> <<>>, size |-> rb.size]]

\* rb.Write(data) in the run with Reset.
ResetWrite ==
    \E L \in 0..ResetLen :
        LET data == Data(seqno, L)
            res  == WriteResult(buffer, size, mask, writePos, readPos, data)
        IN  /\ buffer' = res.buffer
            /\ writePos' = res.writePos
            /\ seqno' = (seqno + res.n) % StampMod
            /\ fifo' = IF res.err = Nil THEN fifo \o data ELSE fifo
            /\ ret' = [op |-> "Write", arg |-> L, n |-> res.n, err |-> res.err,
                       out |-> data, pre |-> Snapshot]
            /\ UNCHANGED <<size, mask, readPos, prod, cons, written, got, lin, single>>

\* rb.Read(dst) in the run with Reset.
ResetRead ==
    \E M \in 0..ResetLen :
        LET res == ReadResult(buffer, size, mask, writePos, readPos, MakeDst(M))
        IN  /\ readPos' = res.readPos
            /\ fifo' = Drop(fifo, res.n)
            /\ ret' = [op |-> "Read", arg |-> M, n |-> res.n, err |-> res.err,
                       out |-> res.out, pre |-> Snapshot]
            /\ UNCHANGED <<buffer, size, mask, writePos, prod, cons, seqno, written, got, lin,
                           single>>

\* The calls that only ask: none of them stores to a field of the buffer.
QueryFns == {"AvailableWrite", "AvailableRead", "Size", "ReadSlices", "PeekContiguous"}

\* The number a query returns (for the two view calls, the bytes in view).
QueryAnswer(fn, sz, msk, w, r) ==
    CASE fn = "AvailableWrite" -> AvailableWrite(sz, w, r)
      [] fn = "AvailableRead"  -> AvailableRead(w, r)
      [] fn = "Size"           -> Size(sz)
      [] fn = "ReadSlices"     -> ReadSlicesResult(sz, msk, w, r).total
      [] OTHER                 -> ViewLen(PeekContiguousResult(sz, msk, w, r))

\* The views a query returns, none for the three that return a number.
QueryViews(fn, sz, msk, w, r) ==
    CASE fn = "ReadSlices" ->
             LET rs == ReadSlicesResult(sz, msk, w, r) IN <<rs.first, rs.second>>
      [] fn = "PeekContiguous" -> <<PeekContiguousResult(sz, msk, w, r), Nil>>
      [] OTHER -> <<Nil, Nil>>

\* rb.AvailableWrite(), rb.AvailableRead(), rb.Size(), rb.ReadSlices() or
\* rb.PeekContiguous() between two other calls.
SeqQuery ==
    \E fn \in QueryFns :
        /\ ret' = [op |-> fn, arg |-> 0,
                   n |-> QueryAnswer(fn, size, mask, writePos, readPos),
                   err |-> Nil,
                   out |-> QueryViews(fn, size, mask, writePos, readPos),
                   pre |-> Snapshot]
        /\ UNCHANGED <<rbVars, prod, cons, seqno, written, got, fifo, lin, single>>

\* rb.Reset()
SeqReset ==
    LET res == ResetResult(writePos, readPos)
    IN  /\ readPos' = res.readPos
        /\ writePos' = res.writePos
        /\ seqno' = 0
        /\ fifo' = <<>>
        /\ ret' = [op |-> "Reset", arg |-> 0, n |-> 0, err |-> Nil, out |-> <<>>,
                   pre |-> Snapshot]
        /\ UNCHANGED <<buffer, size, mask, prod, cons, written, got, lin, single>>

ResetNext ==
    \/ ResetWrite
    \/ ResetRead
    \/ SeqReset
    \/ SeqQuery

ResetSpec == ResetInit /\ [][ResetNext]_vars

\* --------------------------------------------- construction specification
\* New called with every value of the size parameter's type, each new buffer
\* then written and read by one caller as in TestNew and TestWriteRead.
NewInit ==
    \E n \in 0..(Modulus - 1) :
        LET rb == New(n)
        IN  /\ buffer = rb.buffer
            /\ size = rb.size
            /\ mask = rb.mask
            /\ writePos = 0
            /\ readPos = 0
            /\ prod = IdleProd
            /\ cons = IdleCons
            /\ seqno = 0
            /\ written = <<>>
            /\ got = <<>>
            /\ fifo = <<>>
            /\ lin = {}
            /\ single = NilRb
            /\ ret = [op |-> "New", arg |-> n, n |-> 0, err |-> Nil, out |-> <<>>,
                      pre |-> [buffer |-> rb.buffer, writePos |-> 0, readPos |-> 0, fifo |-> <<>>]]

\* rb = New(n): the caller drops the old buffer for a new one.
SeqNew ==
    \E n \in 0..(Modulus - 1) :
        LET rb == New(n)
        IN  /\ buffer' = rb.buffer
            /\ size' = rb.size
            /\ mask' = rb.mask
            /\ writePos' = 0
            /\ readPos' = 0
            /\ seqno' = 0
            /\ fifo' = <<>>
            /\ ret' = [op |-> "New", arg |-> n, n |-> 0, err |-> Nil, out |-> <<>>,
                       pre |-> [buffer |-> rb.buffer, writePos |-> 0, readPos |-> 0, fifo |-> <<>>]]
            /\ UNCHANGED <<prod, cons, written, got, lin, single>>

NewNext ==
    \/ SeqNew
    \/ SeqWrite
    \/ SeqRead

NewSpec == NewInit /\ [][NewNext]_vars

\* --------------------------------------------------- concurrent specification
\* One producer goroutine and one consumer goroutine, as in
\* TestConcurrentProducerConsumer.  Every atomic Load, every atomic Store and
\* every single byte copy is one step.
Init ==
    LET rb == New(ConcRequest)
    IN  /\ buffer = rb.buffer
        /\ size = rb.size
        /\ mask = rb.mask
        /\ writePos = 0
        /\ readPos = 0
        /\ prod = IdleProd
        /\ cons = IdleCons
        /\ seqno = 0
        /\ written = <<>>
        /\ got = <<>>
        /\ fifo = <<>>
        /\ lin = {}
        /\ single = NilRb
        /\ ret = [op |-> "New", arg |-> ConcRequest, n |-> 0, err |-> Nil, out |-> <<>>,
                  pre |-> [buffer |-> rb.buffer, writePos |-> 0, readPos |-> 0, fifo |-> <<>>]]

seqVars == <<fifo, ret, lin, single>>

\* ---- producer: the loop of the test around Write

\* The producer prepares its next chunk (1..size bytes of its pattern).
PChoose ==
    /\ prod.pc = "idle"
    /\ Len(written) < MaxBytes
    /\ \E L \in 1..Min(size, MaxBytes - Len(written)) :
           prod' = [pc |-> "call", data |-> Data(seqno, L)]
    /\ UNCHANGED <<rbVars, cons, seqno, written, got, seqVars>>

\* Write entry, and the first load of AvailableWrite: writePos.Load().
PAvailLoadWrite ==
    /\ prod.pc \in {"call", "retry"}
    /\ prod' = [pc |-> "avail", data |-> prod.data, dataLen |-> U(Len(prod.data)),
                aw |-> writePos]
    /\ UNCHANGED <<rbVars, cons, seqno, written, got, seqVars>>

\* The second load of AvailableWrite: readPos.Load(); then the space check.
\* On ErrInsufficientSpace the producer retries the same chunk.
PAvailLoadRead ==
    /\ prod.pc = "avail"
    /\ LET available == AvailableWrite(size, prod.aw, readPos)
       IN  prod' = IF prod.dataLen > available
                   THEN [pc |-> "retry", data |-> prod.data]
                   ELSE [pc |-> "load", data |-> prod.data, dataLen |-> prod.dataLen]
    /\ UNCHANGED <<rbVars, cons, seqno, written, got, seqVars>>

\* writePos := rb.writePos.Load(); start and end follow.
PLoadWrite ==
    /\ prod.pc = "load"
    /\ LET start == Index(writePos, mask)
           end   == Index(U(writePos + prod.dataLen), mask)
       IN  prod' = [pc |-> "copy", data |-> prod.data, dataLen |-> prod.dataLen,
                    writePos |-> writePos,
                    cp |-> WriteCopies(start, end, prod.dataLen, size), k |-> 1]
    /\ UNCHANGED <<rbVars, cons, seqno, written, got, seqVars>>

\* One byte of copy(rb.buffer[...], data[...]).
PCopy ==
    /\ prod.pc = "copy"
    /\ prod.k <= Len(prod.cp)
    /\ buffer' = [buffer EXCEPT ![prod.cp[prod.k][1]] = prod.data[prod.cp[prod.k][2] + 1]]
    /\ prod' = [prod EXCEPT !.k = prod.k + 1]
    /\ UNCHANGED <<size, mask, writePos, readPos, cons, seqno, written, got, seqVars>>

\* Faulty variant of Write's last step: the new position is stored while
\* byte copies are still to be done, and they are then not done.
PStoreEarly ==
    /\ prod.pc = "copy"
    /\ writePos' = U(prod.writePos + prod.dataLen)
    /\ written' = written \o prod.data
    /\ seqno' = (seqno + prod.dataLen) % StampMod
    /\ prod' = IdleProd
    /\ UNCHANGED <<buffer, size, mask, readPos, cons, got, seqVars>>

\* Faulty variant of Write's last step: the length is stored as the new
\* position instead of being added to the old one.
PStoreAbsolute ==
    /\ prod.pc = "copy"
    /\ prod.k > Len(prod.cp)
    /\ writePos' = U(prod.dataLen)
    /\ written' = written \o prod.data
    /\ seqno' = (seqno + prod.dataLen) % StampMod
    /\ prod' = IdleProd
    /\ UNCHANGED <<buffer, size, mask, readPos, cons, got, seqVars>>

\* rb.writePos.Store(writePos + dataLen); Write returns (dataLen, nil).
PStore ==
    /\ prod.pc = "copy"
    /\ prod.k > Len(prod.cp)
    /\ writePos' = U(prod.writePos + prod.dataLen)
    /\ written' = written \o prod.data
    /\ seqno' = (seqno + prod.dataLen) % StampMod
    /\ prod' = IdleProd
    /\ UNCHANGED <<buffer, size, mask, readPos, cons, got, seqVars>>

Producer == PChoose \/ PAvailLoadWrite \/ PAvailLoadRead \/ PLoadWrite \/ PCopy \/ PStore

\* ---- consumer: the loop of the test around Read

\* The consumer calls Read with a fresh destination of 1..MaxDst bytes.
CChooseRead ==
    /\ cons.pc = "idle"
    /\ Len(got) < MaxBytes
    /\ \E M \in 1..MaxDst : cons' = [pc |-> "read", dst |-> MakeDst(M)]
    /\ UNCHANGED <<rbVars, prod, seqno, written, got, seqVars>>

\* Read entry, and the first load of AvailableRead: writePos.Load().
CReadAvailLoadWrite ==
    /\ cons.pc = "read"
    /\ cons' = [pc |-> "r_avail", dst |-> cons.dst, dataLen |-> U(Len(cons.dst)),
                aw |-> writePos]
    /\ UNCHANGED <<rbVars, prod, seqno, written, got, seqVars>>

\* Faulty variant of CReadAvailLoadRead: all the available bytes are to be
\* read, however short the destination.
CReadAvailLoadReadNoMin ==
    /\ cons.pc = "r_avail"
    /\ LET available == AvailableRead(cons.aw, readPos)
       IN  cons' = IF available = 0
                   THEN IdleCons
                   ELSE [pc |-> "r_load", dst |-> cons.dst, toRead |-> available]
    /\ UNCHANGED <<rbVars, prod, seqno, written, got, seqVars>>

\* The second load of AvailableRead: readPos.Load(); then the empty check.
\* On ErrInsufficientData the consumer goes round its loop.
CReadAvailLoadRead ==
    /\ cons.pc = "r_avail"
    /\ LET available == AvailableRead(cons.aw, readPos)
       IN  cons' = IF available = 0
                   THEN IdleCons
                   ELSE [pc |-> "r_load", dst |-> cons.dst,
                         toRead |-> Min(cons.dataLen, available)]
    /\ UNCHANGED <<rbVars, prod, seqno, written, got, seqVars>>

\* readPos := rb.readPos.Load(); start and end follow.
CReadLoadRead ==
    /\ cons.pc = "r_load"
    /\ LET start == Index(readPos, mask)
           end   == Index(U(readPos + cons.toRead), mask)
       IN  cons' = [pc |-> "r_copy", dst |-> cons.dst, toRead |-> cons.toRead,
                    readPos |-> readPos,
                    cp |-> ReadCopies(start, end, cons.toRead, size), k |-> 1]
    /\ UNCHANGED <<rbVars, prod, seqno, written, got, seqVars>>

\* One byte of copy(data[...], rb.buffer[...]).
CReadCopy ==
    /\ cons.pc = "r_copy"
    /\ cons.k <= Len(cons.cp)
    /\ cons' = [cons EXCEPT !.dst[cons.cp[cons.k][1] + 1] = buffer[cons.cp[cons.k][2]],
                            !.k = cons.k + 1]
    /\ UNCHANGED <<rbVars, prod, seqno, written, got, seqVars>>

\* rb.readPos.Store(readPos + toRead); Read returns (toRead, nil) and the
\* consumer takes data[:toRead].
CReadStore ==
    /\ cons.pc = "r_copy"
    /\ cons.k > Len(cons.cp)
    /\ readPos' = U(cons.readPos + cons.toRead)
    /\ got' = got \o Take(cons.dst, cons.toRead)
    /\ cons' = IdleCons
    /\ UNCHANGED <<buffer, size, mask, writePos, prod, seqno, written, seqVars>>

ConsumerRead ==
    \/ CChooseRead
    \/ CReadAvailLoadWrite
    \/ CReadAvailLoadRead
    \/ CReadLoadRead
    \/ CReadCopy
    \/ CReadStore

\* ---- consumer: the zero-copy path, ReadSlices or PeekContiguous, then Consume

\* The bytes seen through a pair of views, first then second.
ViewsBytes(buf, vs) == ViewBytes(buf, vs[1]) \o ViewBytes(buf, vs[2])

CChooseView ==
    /\ cons.pc = "idle"
    /\ Len(got) < MaxBytes
    /\ \E fn \in {"ReadSlices", "PeekContiguous"} : cons' = [pc |-> "v_call", fn |-> fn]
    /\ UNCHANGED <<rbVars, prod, seqno, written, got, seqVars>>

\* The first load of AvailableRead: writePos.Load().
CViewAvailLoadWrite ==
    /\ cons.pc = "v_call"
    /\ cons' = [pc |-> "v_avail", fn |-> cons.fn, aw |-> writePos]
    /\ UNCHANGED <<rbVars, prod, seqno, written, got, seqVars>>

\* The second load of AvailableRead: readPos.Load(); an empty buffer gives
\* nil views at once.
CViewAvailLoadRead ==
    /\ cons.pc = "v_avail"
    /\ LET available == AvailableRead(cons.aw, readPos)
       IN  cons' = IF available = 0
                   THEN [pc |-> "hold", views |-> <<Nil, Nil>>, snap |-> <<>>]
                   ELSE [pc |-> "v_load", fn |-> cons.fn, available |-> available]
    /\ UNCHANGED <<rbVars, prod, seqno, written, got, seqVars>>

\* readPos := rb.readPos.Load(); the call returns its views.  snap keeps the
\* bytes the views show at this moment.
CViewLoadRead ==
    /\ cons.pc = "v_load"
    /\ LET start == Index(readPos, mask)
           end   == Index(U(readPos + cons.available), mask)
           vs    == IF cons.fn = "ReadSlices"
                    THEN LET res == SlicesOf(start, end, cons.available, size)
                         IN  <<res.first, res.second>>
                    ELSE <<PeekOf(start, end, size), Nil>>
       IN  cons' = [pc |-> "hold", views |-> vs, snap |-> ViewsBytes(buffer, vs)]
    /\ UNCHANGED <<rbVars, prod, seqno, written, got, seqVars>>

\* The consumer has processed the first bytes of its views and calls
\* Consume(n), n up to one more than the views show (TestConsumeError asks
\* for more than is there): Consume(0) returns at once, otherwise
\* writePos.Load().  seen keeps the bytes processed through the views.
CConsumeAvailLoadWrite ==
    /\ cons.pc = "hold"
    /\ \E n \in 0..(ViewLen(cons.views[1]) + ViewLen(cons.views[2]) + 1) :
           cons' = IF n = 0
                   THEN IdleCons
                   ELSE [pc |-> "c_avail", views |-> cons.views, snap |-> cons.snap,
                         n |-> n, seen |-> Take(ViewsBytes(buffer, cons.views), n),
                         aw |-> writePos]
    /\ UNCHANGED <<rbVars, prod, seqno, written, got, seqVars>>

\* readPos.Load() of AvailableRead; then the check of n.
CConsumeAvailLoadRead ==
    /\ cons.pc = "c_avail"
    /\ cons' = IF cons.n > AvailableRead(cons.aw, readPos)
               THEN IdleCons
               ELSE [cons EXCEPT !.pc = "c_load"]
    /\ UNCHANGED <<rbVars, prod, seqno, written, got, seqVars>>

\* readPos := rb.readPos.Load()
CConsumeLoadRead ==
    /\ cons.pc = "c_load"
    /\ cons' = [pc |-> "c_store", views |-> cons.views, snap |-> cons.snap,
                n |-> cons.n, seen |-> cons.seen, readPos |-> readPos]
    /\ UNCHANGED <<rbVars, prod, seqno, written, got, seqVars>>

\* The cnt bytes that lie in storage from cursor value pos on.
BytesFrom(buf, pos, cnt) == [k \in 1..cnt |-> buf[Index(U(pos + k - 1), mask)]]

\* rb.readPos.Store(readPos + n).  The bytes processed through the views
\* count as received; bytes consumed beyond the views are skipped unseen
\* and count as they lie in storage.
CConsumeStore ==
    /\ cons.pc = "c_store"
    /\ readPos' = U(cons.readPos + cons.n)
    /\ got' = got \o cons.seen
                  \o BytesFrom(buffer, cons.readPos + Len(cons.seen), cons.n - Len(cons.seen))
    /\ cons' = IdleCons
    /\ UNCHANGED <<buffer, size, mask, writePos, prod, seqno, written, seqVars>>

ConsumerView ==
    \/ CChooseView
    \/ CViewAvailLoadWrite
    \/ CViewAvailLoadRead
    \/ CViewLoadRead
    \/ CConsumeAvailLoadWrite
    \/ CConsumeAvailLoadRead
    \/ CConsumeLoadRead
    \/ CConsumeStore

Next == Producer \/ ConsumerRead \/ ConsumerView

Spec == Init /\ [][Next]_vars

\* ---- check-then-act callers, as in TestAudioSimulation and Example: each
\* thread asks AvailableWrite / AvailableRead first and makes its call only
\* when the answer covers it.  Either thread may ask either question.

\* What AvailableWrite / AvailableRead ought to report at this instant, from
\* the two cursors as they are now.
TrueValue(fn) ==
    IF fn = "AvailableRead"
    THEN (writePos - readPos) % Modulus
    ELSE size - ((writePos - readPos) % Modulus)

\* The value the query returns from the two cursor values it loaded.
QueryValue(fn, w, r) ==
    IF fn = "AvailableRead" THEN AvailableRead(w, r) ELSE AvailableWrite(size, w, r)

\* The producer prepares a chunk and starts a capacity query.
PQChoose ==
    /\ prod.pc = "idle"
    /\ Len(written) < MaxBytes
    /\ \E L \in 1..Min(size, MaxBytes - Len(written)) :
       \E fn \in {"AvailableWrite", "AvailableRead"} :
           prod' = [pc |-> "q_call", fn |-> fn, data |-> Data(seqno, L)]
    /\ UNCHANGED <<rbVars, cons, seqno, written, got, seqVars>>

\* The query's first load: writePos.Load().  t0 is the true value now.
PQueryLoadWrite ==
    /\ prod.pc = "q_call"
    /\ prod' = [pc |-> "q_avail", fn |-> prod.fn, data |-> prod.data,
                aw |-> writePos, t0 |-> TrueValue(prod.fn)]
    /\ UNCHANGED <<rbVars, cons, seqno, written, got, seqVars>>

\* The query's second load: readPos.Load(), and its result.  t1 is the true
\* value now.
PQueryLoadRead ==
    /\ prod.pc = "q_avail"
    /\ prod' = [pc |-> "q_done", fn |-> prod.fn, data |-> prod.data,
                res |-> QueryValue(prod.fn, prod.aw, readPos),
                t0 |-> prod.t0, t1 |-> TrueValue(prod.fn)]
    /\ UNCHANGED <<rbVars, cons, seqno, written, got, seqVars>>

\* The query has returned: with AvailableWrite() >= len(chunk) the producer
\* calls Write, otherwise it goes round its loop.
PQueryReturn ==
    /\ prod.pc = "q_done"
    /\ prod' = IF prod.fn = "AvailableWrite" /\ prod.res >= Len(prod.data)
               THEN [pc |-> "call", data |-> prod.data]
               ELSE IdleProd
    /\ UNCHANGED <<rbVars, cons, seqno, written, got, seqVars>>

QueryProducer ==
    \/ PQChoose
    \/ PQueryLoadWrite
    \/ PQueryLoadRead
    \/ PQueryReturn
    \/ PAvailLoadWrite
    \/ PAvailLoadRead
    \/ PLoadWrite
    \/ PCopy
    \/ PStore

\* The consumer prepares a destination and starts a capacity query.
CQChoose ==
    /\ cons.pc = "idle"
    /\ Len(got) < MaxBytes
    /\ \E M \in 1..MaxDst :
       \E fn \in {"AvailableRead", "AvailableWrite"} :
           cons' = [pc |-> "q_call", fn |-> fn, dst |-> MakeDst(M)]
    /\ UNCHANGED <<rbVars, prod, seqno, written, got, seqVars>>

\* The query's first load: writePos.Load().
CQueryLoadWrite ==
    /\ cons.pc = "q_call"
    /\ cons' = [pc |-> "q_avail", fn |-> cons.fn, dst |-> cons.dst,
                aw |-> writePos, t0 |-> TrueValue(cons.fn)]
    /\ UNCHANGED <<rbVars, prod, seqno, written, got, seqVars>>

\* The query's second load: readPos.Load(), and its result.
CQueryLoadRead ==
    /\ cons.pc = "q_avail"
    /\ cons' = [pc |-> "q_done", fn |-> cons.fn, dst |-> cons.dst,
                res |-> QueryValue(cons.fn, cons.aw, readPos),
                t0 |-> cons.t0, t1 |-> TrueValue(cons.fn)]
    /\ UNCHANGED <<rbVars, prod, seqno, written, got, seqVars>>

\* The query has returned: with AvailableRead() >= len(dst) the consumer
\* calls Read, otherwise it goes round its loop.
CQueryReturn ==
    /\ cons.pc = "q_done"
    /\ cons' = IF cons.fn = "AvailableRead" /\ cons.res >= Len(cons.dst)
               THEN [pc |-> "read", dst |-> cons.dst]
               ELSE IdleCons
    /\ UNCHANGED <<rbVars, prod, seqno, written, got, seqVars>>

QueryConsumer ==
    \/ CQChoose
    \/ CQueryLoadWrite
    \/ CQueryLoadRead
    \/ CQueryReturn
    \/ CReadAvailLoadWrite
    \/ CReadAvailLoadRead
    \/ CReadLoadRead
    \/ CReadCopy
    \/ CReadStore

QueryNext == QueryProducer \/ QueryConsumer

QuerySpec == Init /\ [][QueryNext]_vars

\* The run of TestConcurrentProducerConsumer: the consumer only calls Read.
\* Both goroutines keep being scheduled.
LiveNext == Producer \/ ConsumerRead

LiveSpec == Init /\ [][LiveNext]_vars /\ WF_vars(Producer) /\ WF_vars(ConsumerRead)

\* ---- callers with data and destinations of any length, the storage's
\* length and one more included: the slice expressions of the calls.

\* A slice expression s[lo:hi] on a slice s of capacity cap; Go panics unless
\* 0 <= lo <= hi <= cap.  Of the caller's slice only its length is known to
\* be there, and it stands for the capacity.
Slice(of, lo, hi, cap) == [of |-> of, lo |-> lo, hi |-> hi, cap |-> cap]

\* The slice expressions Write evaluates, in order.
WriteSliceExprs(start, end, dataLen, sz) ==
    IF end > start
    THEN <<Slice("buffer", start, end, sz)>>
    ELSE LET firstChunk == U(sz - start)
         IN  <<Slice("buffer", start, sz, sz),
               Slice("data", 0, firstChunk, dataLen),
               Slice("buffer", 0, end, sz),
               Slice("data", firstChunk, dataLen, dataLen)>>

\* The slice expressions Read evaluates, in order.
ReadSliceExprs(start, end, toRead, sz, dataLen) ==
    IF end > start
    THEN <<Slice("data", 0, toRead, dataLen),
           Slice("buffer", start, end, sz)>>
    ELSE LET firstChunk == U(sz - start)
         IN  <<Slice("data", 0, firstChunk, dataLen),
               Slice("buffer", start, sz, sz),
               Slice("data", firstChunk, toRead, dataLen),
               Slice("buffer", 0, end, sz)>>

\* The producer calls Write with 0..size+1 bytes; Write of no bytes returns
\* (0, nil) at once.
PChooseAny ==
    /\ prod.pc = "idle"
    /\ Len(written) < MaxBytes
    /\ \E L \in 0..(size + 1) :
           prod' = IF L = 0 THEN IdleProd ELSE [pc |-> "call", data |-> Data(seqno, L)]
    /\ UNCHANGED <<rbVars, cons, seqno, written, got, seqVars>>

\* The consumer calls Read with a destination of 0..size+1 bytes; Read into
\* no bytes returns (0, nil) at once.
CChooseReadAny ==
    /\ cons.pc = "idle"
    /\ Len(got) < MaxBytes
    /\ \E M \in 0..(size + 1) :
           cons' = IF M = 0 THEN IdleCons ELSE [pc |-> "read", dst |-> MakeDst(M)]
    /\ UNCHANGED <<rbVars, prod, seqno, written, got, seqVars>>

BoundsNext ==
    \/ PChooseAny
    \/ PAvailLoadWrite
    \/ PAvailLoadRead
    \/ PLoadWrite
    \/ PCopy
    \/ PStore
    \/ CChooseReadAny
    \/ CReadAvailLoadWrite
    \/ CReadAvailLoadRead
    \/ CReadLoadRead
    \/ CReadCopy
    \/ CReadStore
    \/ ConsumerView

BoundsSpec == Init /\ [][BoundsNext]_vars

\* ------------------------------------------------- two-writer specification
\* Two threads calling Write on the same buffer, against the package's
\* rule of a single producer; no thread reads.  prod is here the pair of
\* the two threads' records; every atomic Load, every atomic Store and every
\* single byte copy is one step.  written collects the data of the Writes
\* that returned success, in the order of their return.

\* The bytes thread t writes in its call number c: unlike any other call's.
WriterData(t, c, L) == [k \in 1..L |-> 20 * t + 5 * c + k]

IdleWriter(calls) == [pc |-> "idle", calls |-> calls]

WritersInit ==
    LET rb == New(ConcRequest)
    IN  /\ buffer = rb.buffer
        /\ size = rb.size
        /\ mask = rb.mask
        /\ writePos = 0
        /\ readPos = 0
        /\ prod = <<IdleWriter(0), IdleWriter(0)>>
        /\ cons = IdleCons
        /\ seqno = 0
        /\ written = <<>>
        /\ got = <<>>
        /\ fifo = <<>>
        /\ lin = {}
        /\ single = NilRb
        /\ ret = [op |-> "New", arg |-> ConcRequest, n |-> 0, err |-> Nil, out |-> <<>>,
                  pre |-> [buffer |-> rb.buffer, writePos |-> 0, readPos |-> 0, fifo |-> <<>>]]

\* Thread t calls Write with 1..WriterLen bytes.
WCall(t) ==
    /\ prod[t].pc = "idle"
    /\ prod[t].calls < WriterCalls
    /\ \E L \in 1..WriterLen :
           prod' = [prod EXCEPT ![t] = [pc |-> "call", calls |-> prod[t].calls + 1,
                                        data |-> WriterData(t, prod[t].calls, L)]]
    /\ UNCHANGED <<rbVars, cons, seqno, written, got, seqVars>>

\* The first load of AvailableWrite: writePos.Load().
WAvailLoadWrite(t) ==
    /\ prod[t].pc = "call"
    /\ prod' = [prod EXCEPT ![t] = [pc |-> "avail", calls |-> prod[t].calls,
                                    data |-> prod[t].data,
                                    dataLen |-> U(Len(prod[t].data)), aw |-> writePos]]
    /\ UNCHANGED <<rbVars, cons, seqno, written, got, seqVars>>

\* The second load of AvailableWrite: readPos.Load(); then the space check,
\* and the return of (0, ErrInsufficientSpace) when it fails.
WAvailLoadRead(t) ==
    /\ prod[t].pc = "avail"
    /\ LET available == AvailableWrite(size, prod[t].aw, readPos)
       IN  prod' = [prod EXCEPT ![t] =
                        IF prod[t].dataLen > available
                        THEN IdleWriter(prod[t].calls)
                        ELSE [pc |-> "load", calls |-> prod[t].calls,
                              data |-> prod[t].data, dataLen |-> prod[t].dataLen]]
    /\ UNCHANGED <<rbVars, cons, seqno, written, got, seqVars>>

\* writePos := rb.writePos.Load(); start and end follow.
WLoadWrite(t) ==
    /\ prod[t].pc = "load"
    /\ LET start == Index(writePos, mask)
           end   == Index(U(writePos + prod[t].dataLen), mask)
       IN  prod' = [prod EXCEPT ![t] =
                        [pc |-> "copy", calls |-> prod[t].calls,
                         data |-> prod[t].data, dataLen |-> prod[t].dataLen,
                         writePos |-> writePos,
                         cp |-> WriteCopies(start, end, prod[t].dataLen, size), k |-> 1]]
    /\ UNCHANGED <<rbVars, cons, seqno, written, got, seqVars>>

\* One byte of copy(rb.buffer[...], data[...]).
WCopy(t) ==
    /\ prod[t].pc = "copy"
    /\ prod[t].k <= Len(prod[t].cp)
    /\ buffer' = [buffer EXCEPT ![prod[t].cp[prod[t].k][1]] =
                                    prod[t].data[prod[t].cp[prod[t].k][2] + 1]]
    /\ prod' = [prod EXCEPT ![t].k = prod[t].k + 1]
    /\ UNCHANGED <<size, mask, writePos, readPos, cons, seqno, written, got, seqVars>>

\* Faulty variant of WStore: the length is added to the position as it is at
\* the store (an atomic add), not to the position loaded before the copies.
WStoreAdd(t) ==
    /\ prod[t].pc = "copy"
    /\ prod[t].k > Len(prod[t].cp)
    /\ writePos' = U(writePos + prod[t].dataLen)
    /\ written' = written \o prod[t].data
    /\ prod' = [prod EXCEPT ![t] = IdleWriter(prod[t].calls)]
    /\ UNCHANGED <<buffer, size, mask, readPos, cons, seqno, got, seqVars>>

\* rb.writePos.Store(writePos + dataLen); Write returns (dataLen, nil).
WStore(t) ==
    /\ prod[t].pc = "copy"
    /\ prod[t].k > Len(prod[t].cp)
    /\ writePos' = U(prod[t].writePos + prod[t].dataLen)
    /\ written' = written \o prod[t].data
    /\ prod' = [prod EXCEPT ![t] = IdleWriter(prod[t].calls)]
    /\ UNCHANGED <<buffer, size, mask, readPos, cons, seqno, got, seqVars>>

WritersNext ==
    \E t \in 1..2 :
        \/ WCall(t)
        \/ WAvailLoadWrite(t)
        \/ WAvailLoadRead(t)
        \/ WLoadWrite(t)
        \/ WCopy(t)
        \/ WStore(t)

WritersSpec == WritersInit /\ [][WritersNext]_vars

\* ------------------------------------------- linearizability specification
\* One producer calling Write and one consumer calling Read, each call split
\* at its atomic cursor loads and stores; the byte copies, on which no result
\* depends, are done with the store that follows them.  lin follows the
\* history against two sequential specifications of the results:
\*   strict:  Write(L) fails exactly when L exceeds the free space; a
\*            successful Read(M) returns exactly min(M, occupancy);
\*   relaxed: Write as in strict; Read(M) fails exactly when the occupancy is
\*            0 and otherwise returns between 1 and min(M, occupancy) bytes.
\* A candidate is one sequential state the calls so far can have led to:
\* occ, its occupancy, and for each thread its call in progress: st is
\* "none", "pend" (not yet placed in the order) or "done" (placed, with the
\* result res the sequential specification gave it there).

NoCall == [st |-> "none", len |-> 0, res |-> 0]

\* The call in progress is placed in the order at this point.
PlaceWrite(c) ==
    LET n == IF c.w.len > size - c.occ THEN 0 ELSE c.w.len
    IN  {[c EXCEPT !.w.st = "done", !.w.res = n, !.occ = c.occ + n]}

PlaceRead(c, strict) ==
    LET most == Min(c.r.len, c.occ)
        ns   == IF strict \/ most = 0 THEN {most} ELSE 1..most
    IN  {[c EXCEPT !.r.st = "done", !.r.res = n, !.occ = c.occ - n] : n \in ns}

PlaceOne(S, strict) ==
    S \cup UNION {PlaceWrite(c) : c \in {d \in S : d.w.st = "pend"}}
      \cup UNION {PlaceRead(c, strict) : c \in {d \in S : d.r.st = "pend"}}

\* Every way of placing the calls in progress, in either order (at most two
\* calls are in progress).
Placed(S, strict) == PlaceOne(PlaceOne(S, strict), strict)

\* Write(L) is called.
OnWriteCall(S, L, strict) ==
    Placed({[c EXCEPT !.w = [st |-> "pend", len |-> L, res |-> 0]] : c \in S}, strict)

\* Write returns n (0 with ErrInsufficientSpace).
OnWriteReturn(S, n) ==
    {[c EXCEPT !.w = NoCall] : c \in {d \in S : d.w.st = "done" /\ d.w.res = n}}

\* Read(M) is called.
OnReadCall(S, M, strict) ==
    Placed({[c EXCEPT !.r = [st |-> "pend", len |-> M, res |-> 0]] : c \in S}, strict)

\* Read returns n bytes and no error.
OnReadReturn(S, n) ==
    {[c EXCEPT !.r = NoCall] : c \in {d \in S : d.r.st = "done" /\ d.r.res = n}}

\* Read returns ErrInsufficientData.  The strict specification says nothing
\* of a failed Read, which may then stand anywhere in the order; the relaxed
\* one wants the occupancy to be 0 where it stands.
OnReadError(S, strict) ==
    {[c EXCEPT !.r = NoCall] :
        c \in {d \in S : \/ d.r.st = "done" /\ d.r.res = 0
                         \/ strict /\ d.r.st = "pend"}}

LinInit ==
    LET rb == New(ConcRequest)
    IN  /\ buffer = rb.buffer
        /\ size = rb.size
        /\ mask = rb.mask
        /\ writePos = 0
        /\ readPos = 0
        /\ prod = IdleProd
        /\ cons = IdleCons
        /\ seqno = 0
        /\ written = <<>>
        /\ got = <<>>
        /\ fifo = <<>>
        /\ lin = [strict  |-> {[occ |-> 0, w |-> NoCall, r |-> NoCall]},
                  relaxed |-> {[occ |-> 0, w |-> NoCall, r |-> NoCall]}]
        /\ single = NilRb
        /\ ret = [op |-> "New", arg |-> ConcRequest, n |-> 0, err |-> Nil, out |-> <<>>,
                  pre |-> [buffer |-> rb.buffer, writePos |-> 0, readPos |-> 0, fifo |-> <<>>]]

\* The producer calls Write with its next chunk.
LPCall ==
    /\ prod.pc = "idle"
    /\ Len(written) < LinBytes
    /\ \E L \in 1..Min(size, LinBytes - Len(written)) :
           /\ prod' = [pc |-> "call", data |-> Data(seqno, L)]
           /\ lin' = [strict  |-> OnWriteCall(lin.strict, L, TRUE),
                      relaxed |-> OnWriteCall(lin.relaxed, L, FALSE)]
    /\ UNCHANGED <<rbVars, cons, seqno, written, got, fifo, ret, single>>

\* The first load of AvailableWrite: writePos.Load().
LPAvailLoadWrite ==
    /\ prod.pc = "call"
    /\ prod' = [pc |-> "avail", data |-> prod.data, dataLen |-> U(Len(prod.data)),
                aw |-> writePos]
    /\ UNCHANGED <<rbVars, cons, seqno, written, got, seqVars>>

\* The second load of AvailableWrite: readPos.Load(); then the space check,
\* and the return of (0, ErrInsufficientSpace) when it fails.
LPAvailLoadRead ==
    /\ prod.pc = "avail"
    /\ LET available == AvailableWrite(size, prod.aw, readPos)
       IN  IF prod.dataLen > available
           THEN /\ prod' = IdleProd
                /\ lin' = [strict  |-> OnWriteReturn(lin.strict, 0),
                           relaxed |-> OnWriteReturn(lin.relaxed, 0)]
           ELSE /\ prod' = [pc |-> "load", data |-> prod.data, dataLen |-> prod.dataLen]
                /\ lin' = lin
    /\ UNCHANGED <<rbVars, cons, seqno, written, got, fifo, ret, single>>

\* writePos.Load(), the byte copies, writePos.Store(writePos + dataLen) and
\* the return of (dataLen, nil).
LPStore ==
    /\ prod.pc = "load"
    /\ LET start == Index(writePos, mask)
           end   == Index(U(writePos + prod.dataLen), mask)
       IN  buffer' = StoreAll(buffer, prod.data,
                              WriteCopies(start, end, prod.dataLen, size))
    /\ writePos' = U(writePos + prod.dataLen)
    /\ written' = written \o prod.data
    /\ seqno' = (seqno + prod.dataLen) % StampMod
    /\ prod' = IdleProd
    /\ lin' = [strict  |-> OnWriteReturn(lin.strict, prod.dataLen),
               relaxed |-> OnWriteReturn(lin.relaxed, prod.dataLen)]
    /\ UNCHANGED <<size, mask, readPos, cons, got, fifo, ret, single>>

\* The consumer calls Read with a fresh destination of 1..MaxDst bytes.
LCCall ==
    /\ cons.pc = "idle"
    /\ Len(got) < LinBytes
    /\ \E M \in 1..MaxDst :
           /\ cons' = [pc |-> "read", dst |-> MakeDst(M)]
           /\ lin' = [strict  |-> OnReadCall(lin.strict, M, TRUE),
                      relaxed |-> OnReadCall(lin.relaxed, M, FALSE)]
    /\ UNCHANGED <<rbVars, prod, seqno, written, got, fifo, ret, single>>

\* The first load of AvailableRead: writePos.Load().
LCAvailLoadWrite ==
    /\ cons.pc = "read"
    /\ cons' = [pc |-> "r_avail", dst |-> cons.dst, dataLen |-> U(Len(cons.dst)),
                aw |-> writePos]
    /\ UNCHANGED <<rbVars, prod, seqno, written, got, seqVars>>

\* The second load of AvailableRead: readPos.Load(); then the empty check,
\* and the return of (0, ErrInsufficientData) when the buffer counts as empty.
LCAvailLoadRead ==
    /\ cons.pc = "r_avail"
    /\ LET available == AvailableRead(cons.aw, readPos)
       IN  IF available = 0
           THEN /\ cons' = IdleCons
                /\ lin' = [strict  |-> OnReadError(lin.strict, TRUE),
                           relaxed |-> OnReadError(lin.relaxed, FALSE)]
           ELSE /\ cons' = [pc |-> "r_load", dst |-> cons.dst,
                            toRead |-> Min(cons.dataLen, available)]
                /\ lin' = lin
    /\ UNCHANGED <<rbVars, prod, seqno, written, got, fifo, ret, single>>

\* readPos.Load(), the byte copies, readPos.Store(readPos + toRead) and the
\* return of (toRead, nil).
LCStore ==
    /\ cons.pc = "r_load"
    /\ LET start == Index(readPos, mask)
           end   == Index(U(readPos + cons.toRead), mask)
           out   == LoadAll(cons.dst, buffer, ReadCopies(start, end, cons.toRead, size))
       IN  got' = got \o Take(out, cons.toRead)
    /\ readPos' = U(readPos + cons.toRead)
    /\ cons' = IdleCons
    /\ lin' = [strict  |-> OnReadReturn(lin.strict, cons.toRead),
               relaxed |-> OnReadReturn(lin.relaxed, cons.toRead)]
    /\ UNCHANGED <<buffer, size, mask, writePos, prod, seqno, written, fifo, ret, single>>

LinNext ==
    \/ LPCall
    \/ LPAvailLoadWrite
    \/ LPAvailLoadRead
    \/ LPStore
    \/ LCCall
    \/ LCAvailLoadWrite
    \/ LCAvailLoadRead
    \/ LCStore

LinSpec == LinInit /\ [][LinNext]_vars

\* ------------------------------------------ single-threaded specification
\* The RingBuffer made by NewRingBuffer: any capacity, int fields, no atomics.
\* A buffer is the record of its fields [buf, readPos, writePos, size].

ErrCapacity == "capacity must be greater than 0"

ErrNegative == "n must be non-negative"

ErrDstTooSmall == "destination buffer too small"

ErrRbInsufficientData == "insufficient data in buffer"

ErrRbSpace == "data length exceeds available write space"

\* Faulty variant of NewRingBuffer: the capacity is rounded up to a power of
\* two, as New does for the lock-free buffer.
NewRingBufferRounded(capacity) ==
    IF capacity <= 0
    THEN [rb |-> NilRb, err |-> ErrCapacity]
    ELSE [rb |-> [buf |-> MakeBytes(nextPowerOf2(capacity)),
                  readPos |-> 0, writePos |-> 0, size |-> 0],
          err |-> Nil]

\* NewRingBuffer(capacity): the pair (rb, err).
NewRingBuffer(capacity) ==
    IF capacity <= 0
    THEN [rb |-> NilRb, err |-> ErrCapacity]
    ELSE [rb |-> [buf |-> MakeBytes(capacity), readPos |-> 0, writePos |-> 0, size |-> 0],
          err |-> Nil]

\* rb.Capacity(): len(rb.buf)
Capacity(rb) == Cardinality(DOMAIN rb.buf)

\* rb.Size() of the single-threaded buffer
RbSize(rb) == rb.size

\* Faulty variant of AvailableWriteSize: one byte is kept back.
AvailableWriteSizeKeepOne(rb) == Capacity(rb) - rb.size - 1

\* rb.AvailableWriteSize()
AvailableWriteSize(rb) == Capacity(rb) - rb.size

\* rb.IsEmpty()
IsEmpty(rb) == rb.size = 0

\* rb.IsFull()
IsFull(rb) == rb.size = Capacity(rb)

\* Faulty variant of the single-threaded Reset: the positions are left alone.
RbResetSizeOnly(rb) == [rb EXCEPT !.size = 0]

\* rb.Reset() of the single-threaded buffer: the buffer afterwards.
RbReset(rb) == [rb EXCEPT !.size = 0, !.readPos = 0, !.writePos = 0]

\* Faulty variant of the single-threaded Read: with less than n bytes stored
\* it reads what there is, as Read of the lock-free buffer does.
RbReadPartial(rb, n, dst) ==
    LET capacity == Capacity(rb)
        m        == Min(n, rb.size)
    IN  IF n < 0
        THEN [n |-> 0, err |-> ErrNegative, dst |-> dst, rb |-> rb]
        ELSE IF n > Len(dst)
        THEN [n |-> 0, err |-> ErrDstTooSmall, dst |-> dst, rb |-> rb]
        ELSE IF rb.readPos + m <= capacity
        THEN [n |-> m, err |-> Nil,
              dst |-> LoadAll(dst, rb.buf,
                              CopyPairs(0, Len(dst), rb.readPos, rb.readPos + m)),
              rb |-> [rb EXCEPT !.readPos = (rb.readPos + m) % capacity,
                                !.size = rb.size - m]]
        ELSE [n |-> m, err |-> Nil,
              dst |-> LoadAll(dst, rb.buf,
                              CopyPairs(0, Len(dst), rb.readPos, capacity)
                              \o CopyPairs(capacity - rb.readPos, Len(dst),
                                           0, m - (capacity - rb.readPos))),
              rb |-> [rb EXCEPT !.readPos = (m - (capacity - rb.readPos)) % capacity,
                                !.size = rb.size - m]]

\* rb.Read(n, dst) of the single-threaded buffer: results, dst and the
\* buffer afterwards.
RbRead(rb, n, dst) ==
    LET capacity == Capacity(rb)
    IN  IF n < 0
        THEN [n |-> 0, err |-> ErrNegative, dst |-> dst, rb |-> rb]
        ELSE IF n > Len(dst)
        THEN [n |-> 0, err |-> ErrDstTooSmall, dst |-> dst, rb |-> rb]
        ELSE IF rb.size < n
        THEN [n |-> 0, err |-> ErrRbInsufficientData, dst |-> dst, rb |-> rb]
        ELSE IF rb.readPos + n <= capacity
        THEN [n |-> n, err |-> Nil,
              dst |-> LoadAll(dst, rb.buf,
                              CopyPairs(0, Len(dst), rb.readPos, rb.readPos + n)),
              rb |-> [rb EXCEPT !.readPos = (rb.readPos + n) % capacity,
                                !.size = rb.size - n]]
        ELSE [n |-> n, err |-> Nil,
              dst |-> LoadAll(dst, rb.buf,
                              CopyPairs(0, Len(dst), rb.readPos, capacity)
                              \o CopyPairs(capacity - rb.readPos, Len(dst),
                                           0, n - (capacity - rb.readPos))),
              rb |-> [rb EXCEPT !.readPos = (n - (capacity - rb.readPos)) % capacity,
                                !.size = rb.size - n]]

\* Faulty variant of the single-threaded Write: data that would fill the
\* buffer exactly is refused.
RbWriteStrict(rb, data) ==
    LET szData   == Len(data)
        capacity == Capacity(rb)
        szToEnd  == rb.writePos + szData
        sz1      == capacity - rb.writePos
    IN  IF szData >= capacity - rb.size
        THEN [n |-> 0, err |-> ErrRbSpace, rb |-> rb]
        ELSE IF szToEnd <= capacity
        THEN [n |-> szData, err |-> Nil,
              rb |-> [rb EXCEPT
                        !.buf = StoreAll(rb.buf, data,
                                         CopyPairs(rb.writePos, capacity, 0, szData)),
                        !.writePos = (rb.writePos + szData) % capacity,
                        !.size = rb.size + szData]]
        ELSE [n |-> szData, err |-> Nil,
              rb |-> [rb EXCEPT
                        !.buf = StoreAll(rb.buf, data,
                                         CopyPairs(rb.writePos, capacity, 0, sz1)
                                         \o CopyPairs(0, capacity, sz1, szData)),
                        !.writePos = (szData - sz1) % capacity,
                        !.size = rb.size + szData]]

\* Faulty variant of the single-threaded Write: past the end of buf the second
\* copy starts again at data[0] instead of data[sz1].
RbWriteBadSplit(rb, data) ==
    LET szData   == Len(data)
        capacity == Capacity(rb)
        szToEnd  == rb.writePos + szData
        sz1      == capacity - rb.writePos
    IN  IF szData > capacity - rb.size
        THEN [n |-> 0, err |-> ErrRbSpace, rb |-> rb]
        ELSE IF szToEnd <= capacity
        THEN [n |-> szData, err |-> Nil,
              rb |-> [rb EXCEPT
                        !.buf = StoreAll(rb.buf, data,
                                         CopyPairs(rb.writePos, capacity, 0, szData)),
                        !.writePos = (rb.writePos + szData) % capacity,
                        !.size = rb.size + szData]]
        ELSE [n |-> szData, err |-> Nil,
              rb |-> [rb EXCEPT
                        !.buf = StoreAll(rb.buf, data,
                                         CopyPairs(rb.writePos, capacity, 0, sz1)
                                         \o CopyPairs(0, szData - sz1, 0, szData)),
                        !.writePos = (szData - sz1) % capacity,
                        !.size = rb.size + szData]]

\* rb.Write(data) of the single-threaded buffer: results and the buffer
\* afterwards.
RbWrite(rb, data) ==
    LET szData   == Len(data)
        capacity == Capacity(rb)
        szToEnd  == rb.writePos + szData
        sz1      == capacity - rb.writePos
    IN  IF szData > capacity - rb.size
        THEN [n |-> 0, err |-> ErrRbSpace, rb |-> rb]
        ELSE IF szToEnd <= capacity
        THEN [n |-> szData, err |-> Nil,
              rb |-> [rb EXCEPT
                        !.buf = StoreAll(rb.buf, data,
                                         CopyPairs(rb.writePos, capacity, 0, szData)),
                        !.writePos = (rb.writePos + szData) % capacity,
                        !.size = rb.size + szData]]
        ELSE [n |-> szData, err |-> Nil,
              rb |-> [rb EXCEPT
                        !.buf = StoreAll(rb.buf, data,
                                         CopyPairs(rb.writePos, capacity, 0, sz1)
                                         \o CopyPairs(0, capacity, sz1, szData)),
                        !.writePos = (szData - sz1) % capacity,
                        !.size = rb.size + szData]]

\* The buffer the variables hold.
Rb == [buf |-> buffer, readPos |-> readPos, writePos |-> writePos, size |-> size]

\* The buffer and the bytes it ought to hold, before a call.
RbSnapshot == [rb |-> Rb, fifo |-> fifo]

\* The caller holds a buffer, not the nil pointer.
HasBuffer == DOMAIN buffer # {}

\* rb, err := NewRingBuffer(capacity).  With rb = nil the variables hold no
\* buffer (no storage at all) and no call can follow.
RbInit ==
    \E capacity \in (-1)..MaxCapacity :
        LET res == NewRingBuffer(capacity)
        IN  /\ buffer = (IF res.rb = NilRb THEN MakeBytes(0) ELSE res.rb.buf)
            /\ size = (IF res.rb = NilRb THEN 0 ELSE res.rb.size)
            /\ readPos = (IF res.rb = NilRb THEN 0 ELSE res.rb.readPos)
            /\ writePos = (IF res.rb = NilRb THEN 0 ELSE res.rb.writePos)
            /\ mask = 0
            /\ prod = IdleProd
            /\ cons = IdleCons
            /\ seqno = 0
            /\ written = <<>>
            /\ got = <<>>
            /\ fifo = <<>>
            /\ lin = {}
            /\ single = NilRb
            /\ ret = [op |-> "NewRingBuffer", arg |-> capacity, dstLen |-> 0, n |-> 0,
                      err |-> res.err, out |-> res.rb,
                      pre |-> [rb |-> res.rb, fifo |-> <<>>]]

\* rb.Write(data), data the next L bytes of the caller's pattern, as long as
\* the caller has bytes left to write.
RbWriteCall ==
    /\ HasBuffer
    /\ \E L \in 0..Min(RbLen, RbBytes - seqno) :
           LET data == Data(seqno, L)
               res  == RbWrite(Rb, data)
           IN  /\ buffer' = res.rb.buf
               /\ writePos' = res.rb.writePos
               /\ readPos' = res.rb.readPos
               /\ size' = res.rb.size
               /\ seqno' = (seqno + res.n) % StampMod
               /\ fifo' = IF res.err = Nil THEN fifo \o data ELSE fifo
               /\ ret' = [op |-> "Write", arg |-> L, dstLen |-> 0, n |-> res.n,
                          err |-> res.err, out |-> data, pre |-> RbSnapshot]
               /\ UNCHANGED <<mask, prod, cons, written, got, lin, single>>

\* rb.Read(n, dst), dst a fresh slice one shorter than n, of length n, or
\* one longer.
RbReadCall ==
    /\ HasBuffer
    /\ \E n \in (-1)..RbLen :
       \E D \in {d \in 0..RbLen : d \in (n - 1)..(n + 1)} :
           LET res == RbRead(Rb, n, MakeDst(D))
           IN  /\ buffer' = res.rb.buf
               /\ writePos' = res.rb.writePos
               /\ readPos' = res.rb.readPos
               /\ size' = res.rb.size
               /\ fifo' = Drop(fifo, res.n)
               /\ ret' = [op |-> "Read", arg |-> n, dstLen |-> D, n |-> res.n,
                          err |-> res.err, out |-> res.dst, pre |-> RbSnapshot]
               /\ UNCHANGED <<mask, prod, cons, seqno, written, got, lin, single>>

\* rb.Reset()
RbResetCall ==
    /\ HasBuffer
    /\ LET rb == RbReset(Rb)
       IN  /\ buffer' = rb.buf
           /\ writePos' = rb.writePos
           /\ readPos' = rb.readPos
           /\ size' = rb.size
    /\ fifo' = <<>>
    /\ ret' = [op |-> "Reset", arg |-> 0, dstLen |-> 0, n |-> 0, err |-> Nil,
               out |-> <<>>, pre |-> RbSnapshot]
    /\ UNCHANGED <<mask, prod, cons, seqno, written, got, lin, single>>

RbNext ==
    \/ RbWriteCall
    \/ RbReadCall
    \/ RbResetCall

RbSpec == RbInit /\ [][RbNext]_vars

\* ------------------------------------------------ side-by-side specification
\* The lock-free buffer built by New(c) and the single-threaded buffer built
\* by NewRingBuffer(c), fed the same calls one after another.  The lock-free
\* buffer is on buffer, size, mask, writePos and readPos; the single-threaded
\* one is the record single.  ret keeps the last call with both results
\* (n, err, out of the lock-free buffer; sn, serr, sout of the other), the
\* capacity c asked for, and over: whether some Read so far has asked for
\* more bytes than the single-threaded buffer held while it held some.

PairSnapshot ==
    [buffer |-> buffer, writePos |-> writePos, readPos |-> readPos, single |-> single]

PairInit ==
    \E c \in 1..PairCapacity :
        LET rb  == New(c)
            res == NewRingBuffer(c)
        IN  /\ buffer = rb.buffer
            /\ size = rb.size
            /\ mask = rb.mask
            /\ writePos = 0
            /\ readPos = 0
            /\ single = res.rb
            /\ prod = IdleProd
            /\ cons = IdleCons
            /\ seqno = 0
            /\ written = <<>>
            /\ got = <<>>
            /\ fifo = <<>>
            /\ lin = {}
            /\ ret = [op |-> "New", arg |-> c, c |-> c, over |-> FALSE,
                      n |-> 0, err |-> Nil, out |-> <<>>,
                      sn |-> 0, serr |-> res.err, sout |-> <<>>,
                      pre |-> [buffer |-> rb.buffer, writePos |-> 0, readPos |-> 0,
                               single |-> res.rb]]

\* Write(data) on both, data the next L bytes the caller has.
PairWrite ==
    \E L \in 0..Min(PairLen, PairBytes - seqno) :
        LET data == Data(seqno, L)
            res  == WriteResult(buffer, size, mask, writePos, readPos, data)
            sres == RbWrite(single, data)
        IN  /\ buffer' = res.buffer
            /\ writePos' = res.writePos
            /\ single' = sres.rb
            /\ seqno' = seqno + L
            /\ ret' = [op |-> "Write", arg |-> L, c |-> ret.c, over |-> ret.over,
                       n |-> res.n, err |-> res.err, out |-> data,
                       sn |-> sres.n, serr |-> sres.err, sout |-> data,
                       pre |-> PairSnapshot]
            /\ UNCHANGED <<size, mask, readPos, prod, cons, written, got, fifo, lin>>

\* Read(dst) on the lock-free buffer and Read(n, dst) on the single-threaded
\* one, dst a fresh slice of length n each time.
PairRead ==
    \E n \in 0..PairLen :
        LET res  == ReadResult(buffer, size, mask, writePos, readPos, MakeDst(n))
            sres == RbRead(single, n, MakeDst(n))
        IN  /\ readPos' = res.readPos
            /\ single' = sres.rb
            /\ ret' = [op |-> "Read", arg |-> n, c |-> ret.c,
                       over |-> (ret.over \/ (single.size > 0 /\ n > single.size)),
                       n |-> res.n, err |-> res.err, out |-> res.out,
                       sn |-> sres.n, serr |-> sres.err, sout |-> sres.dst,
                       pre |-> PairSnapshot]
            /\ UNCHANGED <<buffer, size, mask, writePos, prod, cons, seqno, written, got,
                           fifo, lin>>

PairNext ==
    \/ PairWrite
    \/ PairRead

PairSpec == PairInit /\ [][PairNext]_vars

\* ======================================================== checked properties
\* The formulas below do their own arithmetic on the cursors instead of
\* calling the operators that model the code.

\* Occupancy computed from two cursor values.
Occ(w, r) == (w - r) % Modulus

\* Storage index of a cursor value.
Idx(pos) == pos % size

IsPrefix(s, t) == Len(s) <= Len(t) /\ s = SubSeq(t, 1, Len(s))

\* The unread bytes as they lie in storage, oldest first.
UnreadBytes == [k \in 1..Occ(writePos, readPos) |-> buffer[Idx(readPos + k - 1)]]

\* The storage indices of the unread region [readPos, writePos).
UnreadIdx == {Idx(readPos + j) : j \in 0..(Occ(writePos, readPos) - 1)}

\* C1: under every interleaving of the producer's and the consumer's atomic
\* steps, the bytes returned to the consumer so far are a prefix of the bytes
\* accepted from the producer so far: nothing is corrupted, lost, duplicated
\* or reordered.
C1_ReadsArePrefixOfWrites == IsPrefix(got, written)

\* C1 witness: the whole stream has been sent and received, which takes the
\* cursors past the end of storage more than once.
C1_Witness == Len(got) = MaxBytes /\ got = written /\ MaxBytes > size

\* C2: in every state of the concurrent run the occupancy writePos - readPos
\* lies in 0..Size, and it is the number of bytes accepted and not yet
\* returned: the producer never overfills, the consumer never overtakes.
C2_OccupancyInvariant ==
    /\ Occ(writePos, readPos) \in 0..size
    /\ Len(written) - Len(got) \in 0..size
    /\ Occ(writePos, readPos) = Len(written) - Len(got)

\* C2 witness: the buffer is full after the consumer has already advanced
\* readPos, so both bounds of the occupancy have been met.
C2_Witness == Occ(writePos, readPos) = size /\ Len(got) > 0 /\ readPos # 0

\* Free space before the last sequential call.
PreFree == size - Occ(ret.pre.writePos, ret.pre.readPos)

\* Occupancy before the last sequential call.
PreOcc == Occ(ret.pre.writePos, ret.pre.readPos)

\* C3: a Write longer than the free space returns (0, ErrInsufficientSpace)
\* and leaves writePos, readPos and every byte of storage as they were.
C3_WriteFailureChangesNothing ==
    (ret.op = "Write" /\ ret.arg > PreFree) =>
        /\ ret.n = 0
        /\ ret.err = ErrInsufficientSpace
        /\ writePos = ret.pre.writePos
        /\ readPos = ret.pre.readPos
        /\ buffer = ret.pre.buffer

\* C3 witness: a Write that would have fitted an empty buffer is refused on
\* a partly filled one.
C3_Witness ==
    /\ ret.op = "Write"
    /\ ret.err = ErrInsufficientSpace
    /\ ret.arg <= size
    /\ PreOcc > 0
    /\ PreFree > 0

\* C4: a Write of L bytes with 1 <= L <= free space returns (L, nil), advances
\* writePos by exactly L, leaves readPos alone and raises AvailableRead by L;
\* when L is exactly the free space the buffer is full and a following
\* one-byte Write is refused.
C4_WriteSuccess ==
    (ret.op = "Write" /\ ret.arg >= 1 /\ ret.arg <= PreFree) =>
        /\ ret.n = ret.arg
        /\ ret.err = Nil
        /\ writePos = (ret.pre.writePos + ret.arg) % Modulus
        /\ readPos = ret.pre.readPos
        /\ AvailableRead(writePos, readPos) = PreOcc + ret.arg
        /\ (ret.arg = PreFree =>
               /\ Occ(writePos, readPos) = size
               /\ WriteResult(buffer, size, mask, writePos, readPos, <<1>>).err
                      = ErrInsufficientSpace)

\* C4 witness: a Write of exactly the free space of a partly filled buffer.
C4_Witness ==
    /\ ret.op = "Write"
    /\ ret.err = Nil
    /\ ret.arg >= 1
    /\ ret.arg = PreFree
    /\ PreOcc > 0

\* C5: on a non-empty buffer a Read into M > 0 bytes returns
\* (min(M, occupancy), nil), copies exactly that many of the oldest unread
\* bytes in order, leaves the rest of the destination alone and advances
\* readPos by that amount; with M >= occupancy the buffer is left empty.
C5_PartialOkRead ==
    (ret.op = "Read" /\ ret.arg > 0 /\ PreOcc > 0) =>
        /\ ret.n = (IF ret.arg < PreOcc THEN ret.arg ELSE PreOcc)
        /\ ret.err = Nil
        /\ SubSeq(ret.out, 1, ret.n) = SubSeq(ret.pre.fifo, 1, ret.n)
        /\ \A k \in (ret.n + 1)..ret.arg : ret.out[k] = 0
        /\ readPos = (ret.pre.readPos + ret.n) % Modulus
        /\ writePos = ret.pre.writePos
        /\ (ret.arg >= PreOcc => /\ ret.n = PreOcc
                                 /\ Occ(writePos, readPos) = 0)

\* C5 witness: a Read with a destination longer than the unread data, the
\* data lying across the end of storage.
C5_Witness ==
    /\ ret.op = "Read"
    /\ ret.err = Nil
    /\ ret.arg > PreOcc
    /\ PreOcc > 1
    /\ (ret.pre.readPos % size) + PreOcc > size

\* C6: a Read into M > 0 bytes on an empty buffer returns
\* (0, ErrInsufficientData), moves no cursor and leaves the destination
\* untouched; after a Write the same Read succeeds and returns the byte written.
C6_ReadOnEmpty ==
    (ret.op = "Read" /\ ret.arg > 0 /\ PreOcc = 0) =>
        /\ ret.n = 0
        /\ ret.err = ErrInsufficientData
        /\ writePos = ret.pre.writePos
        /\ readPos = ret.pre.readPos
        /\ ret.out = [k \in 1..ret.arg |-> 0]
        /\ LET wr == WriteResult(buffer, size, mask, writePos, readPos, <<1>>)
               rd == ReadResult(wr.buffer, size, mask, wr.writePos, readPos, ret.out)
           IN  /\ wr.err = Nil
               /\ rd.err = Nil
               /\ rd.n = 1
               /\ rd.out[1] = 1

\* C6 witness: a refused Read on a buffer that was used and drained before.
C6_Witness ==
    /\ ret.op = "Read"
    /\ ret.err = ErrInsufficientData
    /\ ret.arg > 0
    /\ readPos # 0

\* C7: calls run one after another: the unread bytes in storage, taken in
\* cursor order, are always the bytes accepted and not yet returned, and every
\* successful Read returns the oldest of them in order, from every cursor
\* offset and also when the range reaches or crosses the end of storage.
C7_SequentialRoundTrip ==
    /\ UnreadBytes = fifo
    /\ (ret.op = "Read" /\ ret.err = Nil) =>
           /\ ret.n <= Len(ret.pre.fifo)
           /\ SubSeq(ret.out, 1, ret.n) = SubSeq(ret.pre.fifo, 1, ret.n)
           /\ fifo = SubSeq(ret.pre.fifo, ret.n + 1, Len(ret.pre.fifo))

\* C7 witness: Size 8, write 3, read 2, write 5, then a Read of everything.
C7_Witness ==
    /\ size = 8
    /\ ret.op = "Read"
    /\ ret.err = Nil
    /\ ret.pre.readPos = 2
    /\ ret.pre.writePos = 8
    /\ ret.n = 6
    /\ ret.arg > 6

\* The consumer holds views from ReadSlices or PeekContiguous.
HoldsViews == cons.pc \in {"hold", "c_avail", "c_load", "c_store"}

\* C8: while the consumer holds views the bytes they show do not change, and
\* the producer never copies into a storage index of the unread region
\* [readPos, writePos).
C8_ViewsStayValid ==
    /\ HoldsViews => ViewsBytes(buffer, cons.views) = cons.snap
    /\ (prod.pc = "copy" /\ prod.k <= Len(prod.cp)) => prod.cp[prod.k][1] \notin UnreadIdx

\* C8 witness: the consumer holds two non-empty views (the data wraps) while
\* the producer is in the middle of its byte copies.
C8_Witness ==
    /\ cons.pc = "hold"
    /\ ViewLen(cons.views[1]) > 0
    /\ ViewLen(cons.views[2]) > 0
    /\ prod.pc = "copy"
    /\ prod.k > 1
    /\ prod.k <= Len(prod.cp)

\* C9: in every state of the sequential run, the two views of ReadSlices read
\* in order are the bytes a Read into total bytes copies, and Consume(total)
\* leaves readPos (hence AvailableRead) where that Read leaves it; neither
\* touches writePos.
C9_ZeroCopyEquivalence ==
    LET rs == ReadSlicesResult(size, mask, writePos, readPos)
        rd == ReadResult(buffer, size, mask, writePos, readPos, MakeDst(rs.total))
        cs == ConsumeResult(writePos, readPos, rs.total)
    IN  /\ rs.total = Occ(writePos, readPos)
        /\ rd.n = rs.total
        /\ ViewBytes(buffer, rs.first) \o ViewBytes(buffer, rs.second) = rd.out
        /\ rd.err = Nil
        /\ cs.err = Nil
        /\ cs.readPos = rd.readPos
        /\ Occ(writePos, cs.readPos) = 0

\* C9 witness: ReadSlices has returned two non-empty views of wrapped data.
C9_Witness ==
    /\ ret.op = "ReadSlices"
    /\ ret.out[2] # Nil
    /\ ViewLen(ret.out[1]) > 0
    /\ ViewLen(ret.out[2]) > 0

\* C10: with both goroutines scheduled again and again, the producer
\* retrying on ErrInsufficientSpace and the consumer on ErrInsufficientData,
\* every chunk is eventually written and every written byte eventually read,
\* and both loops end.
C10_Progress ==
    <>[](/\ Len(written) = MaxBytes
         /\ got = written
         /\ prod.pc = "idle"
         /\ cons.pc = "idle")

\* C10 witness: the producer has been refused for lack of space and is about
\* to retry a chunk as long as the whole buffer, while the consumer has
\* drained everything written so far.
C10_Witness ==
    /\ prod.pc = "retry"
    /\ Len(prod.data) = size
    /\ Len(got) > 0
    /\ got = written

\* C12: Consume(n) with n greater than the unread data returns
\* ErrInsufficientData and leaves readPos, writePos and storage as they were,
\* so AvailableRead reports the same before and after.
C12_ConsumeFailureChangesNothing ==
    (ret.op = "Consume" /\ ret.arg > PreOcc) =>
        /\ ret.err = ErrInsufficientData
        /\ readPos = ret.pre.readPos
        /\ writePos = ret.pre.writePos
        /\ buffer = ret.pre.buffer
        /\ AvailableRead(writePos, readPos) = PreOcc

\* C12 witness: a Consume refused on a buffer that holds some data, after
\* the cursors have moved.
C12_Witness ==
    /\ ret.op = "Consume"
    /\ ret.err = ErrInsufficientData
    /\ PreOcc > 0
    /\ ret.pre.readPos # 0

\* C13: Consume(n) with 1 <= n <= unread data returns nil, advances readPos
\* by exactly n, lowers AvailableRead by n and leaves writePos and storage
\* alone; a Read that follows returns the formerly unread bytes from offset n
\* on, in order.
C13_ConsumeSuccess ==
    (ret.op = "Consume" /\ ret.arg >= 1 /\ ret.arg <= PreOcc) =>
        /\ ret.err = Nil
        /\ readPos = (ret.pre.readPos + ret.arg) % Modulus
        /\ writePos = ret.pre.writePos
        /\ buffer = ret.pre.buffer
        /\ AvailableRead(writePos, readPos) = PreOcc - ret.arg
        /\ LET rest == SubSeq(ret.pre.fifo, ret.arg + 1, Len(ret.pre.fifo))
               rd   == ReadResult(buffer, size, mask, writePos, readPos, MakeDst(size))
           IN  /\ rd.n = Len(rest)
               /\ SubSeq(rd.out, 1, rd.n) = rest
               /\ rd.err = (IF rest = <<>> THEN ErrInsufficientData ELSE Nil)

\* C13 witness: a partial Consume of data that lies across the end of storage,
\* on a buffer whose read cursor had already moved.
C13_Witness ==
    /\ ret.op = "Consume"
    /\ ret.err = Nil
    /\ ret.arg >= 1
    /\ ret.arg < PreOcc
    /\ ret.pre.readPos # 0
    /\ (ret.pre.readPos % size) + PreOcc > size

\* The unread bytes lie across the end of storage: the range that starts at
\* readPos's index runs past the last storage index.
Wraps == Idx(readPos) + Occ(writePos, readPos) > size

\* C14: ReadSlices returns a second slice only when the unread data wraps
\* around the end of storage, and nil otherwise: whenever the unread bytes
\* occupy one contiguous range of storage, a range ending exactly at the last
\* storage index included, second is nil. (Refuted: when the range ends
\* exactly at the last index, the end index is 0, the code takes the wrapped
\* branch and second is the empty, non-nil slice buffer[:0].)
C14_SecondNilUnlessWrapped ==
    LET rs == ReadSlicesResult(size, mask, writePos, readPos)
    IN  /\ rs.second # Nil => Wraps
        /\ ~Wraps => rs.second = Nil

\* C14 witness: a ReadSlices call on data that ends exactly at the last
\* storage index returned an empty second slice that is not nil.
C14_Witness ==
    /\ ret.op = "ReadSlices"
    /\ ret.n > 0
    /\ Idx(readPos) + Occ(writePos, readPos) = size
    /\ ret.out[2] = View(0, 0)
    /\ ret.out[2] # Nil

\* C15: on an empty buffer ReadSlices returns (nil, nil, 0); in every state
\* total equals the unread count, len(first) + len(second) equals total, and
\* first starts at storage index readPos & mask.
C15_ReadSlicesTotals ==
    LET rs  == ReadSlicesResult(size, mask, writePos, readPos)
        occ == Occ(writePos, readPos)
    IN  /\ occ = 0 => rs = [first |-> Nil, second |-> Nil, total |-> 0]
        /\ rs.total = occ
        /\ ViewLen(rs.first) + ViewLen(rs.second) = rs.total
        /\ occ > 0 => (rs.first # Nil /\ rs.first[1] = Idx(readPos))
        /\ ret.op = "ReadSlices" =>
               (ret.n = rs.total /\ ret.out = <<rs.first, rs.second>>)

\* C15 witness: a ReadSlices call returned two non-empty views of data lying
\* across the end of storage.
C15_Witness ==
    /\ ret.op = "ReadSlices"
    /\ ret.out[1] # Nil
    /\ ret.out[2] # Nil
    /\ ViewLen(ret.out[1]) > 0
    /\ ViewLen(ret.out[2]) > 0
    /\ ret.n = ViewLen(ret.out[1]) + ViewLen(ret.out[2])

\* C16: PeekContiguous returns exactly the first slice ReadSlices would return
\* in the same state: nil on an empty buffer, otherwise
\* min(unread, Size - (readPos & mask)) bytes, strictly fewer than the unread
\* count when the data wraps; the call changes neither cursor, so
\* AvailableRead is the same after it.
C16_PeekIsFirstSlice ==
    LET pk  == PeekContiguousResult(size, mask, writePos, readPos)
        rs  == ReadSlicesResult(size, mask, writePos, readPos)
        occ == Occ(writePos, readPos)
    IN  /\ pk = rs.first
        /\ occ = 0 => pk = Nil
        /\ occ > 0 => /\ pk # Nil
                      /\ pk[1] = Idx(readPos)
                      /\ ViewLen(pk) = Min(occ, size - Idx(readPos))
        /\ Wraps => ViewLen(pk) < occ
        /\ ret.op = "PeekContiguous" =>
               /\ ret.out[1] = pk
               /\ readPos = ret.pre.readPos
               /\ writePos = ret.pre.writePos
               /\ buffer = ret.pre.buffer
               /\ AvailableRead(writePos, readPos) = PreOcc

\* C16 witness: PeekContiguous on data that wraps returned fewer bytes than
\* are unread.
C16_Witness ==
    /\ ret.op = "PeekContiguous"
    /\ Wraps
    /\ ret.n > 0
    /\ ret.n < Occ(writePos, readPos)

\* C17: empty operations are no-ops in every state: Write of a zero-length
\* slice returns (0, nil), Read into a zero-length destination returns
\* (0, nil) even when the buffer is empty, Consume(0) returns nil; none of
\* them changes writePos, readPos or storage.
C17_EmptyOperations ==
    (ret.op \in {"Write", "Read", "Consume"} /\ ret.arg = 0) =>
        /\ ret.n = 0
        /\ ret.err = Nil
        /\ writePos = ret.pre.writePos
        /\ readPos = ret.pre.readPos
        /\ buffer = ret.pre.buffer

\* C17 witness: a Read into a zero-length destination on an empty buffer whose
\* cursors have moved.
C17_Witness ==
    /\ ret.op = "Read"
    /\ ret.arg = 0
    /\ PreOcc = 0
    /\ ret.pre.readPos # 0

\* s is a power of two that fits the cursor type.
IsPow2(s) == \E k \in 0..(CursorBits - 1) : s = Pow2(k)

\* s is the smallest power of two that is >= n.
IsSmallestPow2(s, n) ==
    /\ IsPow2(s)
    /\ s >= n
    /\ \A k \in 0..(CursorBits - 1) : Pow2(k) >= n => s <= Pow2(k)

\* The largest power of two the cursor type holds.
TopPow2 == Pow2(CursorBits - 1)

C19_Reset ==
    ret.op = "Reset" =>
        /\ readPos = 0
        /\ writePos = 0
        /\ AvailableRead(writePos, readPos) = 0
        /\ AvailableWrite(size, writePos, readPos) = size
        /\ size = ret.pre.size
        /\ LET rd == ReadResult(buffer, size, mask, writePos, readPos, MakeDst(size))
           IN  rd.n = 0 /\ rd.err = ErrInsufficientData
        /\ ReadSlicesResult(size, mask, writePos, readPos)
               = [first |-> Nil, second |-> Nil, total |-> 0]
        /\ PeekContiguousResult(size, mask, writePos, readPos) = Nil
        /\ ConsumeResult(writePos, readPos, 1).err = ErrInsufficientData

\* C19 witness: a Reset that discarded unread bytes, after both cursors had
\* moved.
C19_Witness ==
    /\ ret.op = "Reset"
    /\ PreOcc > 0
    /\ ret.pre.readPos # 0
    /\ ret.pre.writePos # 0
    /\ ret.pre.fifo # <<>>

\* C11, producer: from the moment AvailableWrite() >= L was observed until the
\* Write of the L bytes has stored its cursor, the free space covers L, and
\* the Write never takes its ErrInsufficientSpace path.
C11_ProducerStable ==
    /\ prod.pc # "retry"
    /\ prod.pc \in {"call", "avail", "load", "copy"} =>
           Len(prod.data) <= size - Occ(writePos, readPos)

\* C11, consumer: from the moment AvailableRead() >= M was observed until the
\* Read has stored its cursor, the unread data covers M, and the Read is set
\* to return exactly M bytes.
C11_ConsumerStable ==
    /\ cons.pc \in {"read", "r_avail", "r_load", "r_copy"} =>
           Len(cons.dst) <= Occ(writePos, readPos)
    /\ cons.pc \in {"r_load", "r_copy"} => cons.toRead = Len(cons.dst)

\* C11, the calls' checks: the step of Write that checks the space goes on to
\* the copy, and the step of Read that checks for data goes on to copy
\* exactly len(dst) bytes; neither returns an error.
C11_ChecksPass ==
    /\ (prod.pc = "avail" /\ prod' # prod) => prod'.pc = "load"
    /\ (cons.pc = "r_avail" /\ cons' # cons) =>
           (cons'.pc = "r_load" /\ cons'.toRead = Len(cons.dst))
    /\ (prod.pc = "copy" /\ prod'.pc = "idle") =>
           written' = written \o prod.data
    /\ (cons.pc = "r_copy" /\ cons'.pc = "idle") =>
           Len(got') = Len(got) + Len(cons.dst)

\* C11: check-then-act stability under concurrency: once the producer has
\* observed AvailableWrite() >= L, its next Write of L bytes succeeds whatever
\* the consumer does in between; once the consumer has observed
\* AvailableRead() >= M, its next Read into a destination of length M returns
\* exactly M bytes with a nil error whatever the producer does in between.
C11_CheckThenAct ==
    /\ [](C11_ProducerStable /\ C11_ConsumerStable)
    /\ [][C11_ChecksPass]_vars

\* C11 witness: both threads are inside the call they checked for, the
\* producer about to store after a Write of several bytes while the consumer
\* is in the middle of a Read of several bytes.
C11_Witness ==
    /\ prod.pc = "copy"
    /\ prod.k > Len(prod.cp)
    /\ Len(prod.data) > 1
    /\ cons.pc = "r_copy"
    /\ Len(cons.dst) > 1
    /\ cons.k <= Len(cons.cp)
    /\ writePos > size

\* C20: AvailableRead() and AvailableWrite(), called by the producer thread or
\* by the consumer thread while the other thread runs, with the two cursor
\* loads as separate steps, return a value in 0..Size that is the true value
\* of the quantity at an instant between the start of the call and its return
\* (here: at the first load or at the second load).
C20_QueriesAreSnapshots ==
    /\ prod.pc = "q_done" =>
           (prod.res \in 0..size /\ prod.res \in {prod.t0, prod.t1})
    /\ cons.pc = "q_done" =>
           (cons.res \in 0..size /\ cons.res \in {cons.t0, cons.t1})

\* C20 witness: the producer's AvailableRead returned after the consumer moved
\* readPos between the query's two loads, the consumer being in its next Read.
C20_Witness ==
    /\ prod.pc = "q_done"
    /\ prod.fn = "AvailableRead"
    /\ prod.t0 # prod.t1
    /\ prod.res = prod.t1
    /\ cons.pc = "r_load"

\* What C21 asks of the state a query leaves: cursors, storage and size are
\* those before the query, and Size() answers the size field.
C21_QueryFrame ==
    /\ ret.op \in QueryFns =>
           /\ writePos = ret.pre.writePos
           /\ readPos = ret.pre.readPos
           /\ buffer = ret.pre.buffer
           /\ size = ret.pre.size
    /\ ret.op = "Size" => ret.n = size
    /\ ret.op = "AvailableRead" => ret.n = PreOcc
    /\ ret.op = "AvailableWrite" => ret.n = PreFree

\* C21: queries are pure: AvailableWrite, AvailableRead, Size, ReadSlices and
\* PeekContiguous leave writePos, readPos and storage unchanged in every
\* state, and Size() returns the same value after any sequence of operations,
\* Reset included: no step changes size or mask.
C21_QueriesArePure ==
    /\ []C21_QueryFrame
    /\ [][size' = size /\ mask' = mask]_vars

\* C21 witness: Size() was asked on a buffer that holds data lying across the
\* end of storage, some storage byte having been written more than once.
C21_Witness ==
    /\ ret.op = "Size"
    /\ ret.n = size
    /\ Wraps
    /\ \E i \in DOMAIN buffer : buffer[i] # 0 /\ buffer[i] # Stamp(i)

\* Who stores what, in one step of the concurrent run: writePos is stored only
\* by the last step of Write, readPos only by the last step of Read or
\* Consume; a producer step leaves readPos alone, a consumer step leaves
\* writePos and storage alone.
C22_Ownership ==
    /\ writePos' # writePos => (prod.pc = "copy" /\ prod'.pc = "idle")
    /\ readPos' # readPos => (cons.pc \in {"r_copy", "c_store"} /\ cons'.pc = "idle")
    /\ prod' # prod => readPos' = readPos
    /\ cons' # cons => (writePos' = writePos /\ buffer' = buffer)

\* C22 (as stated): cursor ownership as above, and both cursors are
\* non-decreasing from step to step.
C22_CursorsNeverDecrease ==
    [][/\ C22_Ownership
       /\ writePos' >= writePos
       /\ readPos' >= readPos]_vars

\* C22 (amended): cursor ownership as above; each store advances its cursor,
\* in arithmetic modulo 2^w, by the number of bytes of the call, which is
\* between 0 and Size: the count of bytes ever written (read) never
\* decreases and the cursor is that count modulo 2^w, so the cursor's value
\* decreases exactly when the count passes a multiple of 2^w.
C22_CursorOwnership ==
    [][/\ C22_Ownership
       /\ Len(written') - Len(written) \in 0..size
       /\ Len(got') - Len(got) \in 0..size
       /\ writePos' = (writePos + Len(written') - Len(written)) % Modulus
       /\ readPos' = (readPos + Len(got') - Len(got)) % Modulus
       /\ writePos' = Len(written') % Modulus
       /\ readPos' = Len(got') % Modulus
       /\ writePos' < writePos => Len(written') \div Modulus > Len(written) \div Modulus
       /\ readPos' < readPos => Len(got') \div Modulus > Len(got) \div Modulus]_vars

\* C22 witness: the write cursor has passed 2^w and is numerically below the
\* read cursor, with unread data in the buffer and the consumer in a Consume.
C22_Witness ==
    /\ Len(written) >= Modulus
    /\ writePos < readPos
    /\ Occ(writePos, readPos) > 0
    /\ cons.pc = "c_store"

\* ---- the single-threaded buffer

\* Number of storage bytes of the buffer the variables hold.
Cap == Cardinality(DOMAIN buffer)

\* The bytes stored in the single-threaded buffer, oldest first.
RbStored == [k \in 1..size |-> buffer[(readPos + k - 1) % Cap]]

\* C23: the single-threaded buffer is FIFO for any capacity, powers of two or
\* not: the bytes a successful Read(n, dst) copies into dst are, in order, the
\* oldest n bytes written and not yet read, also when the write or the read
\* crossed the end of the backing array; in every state the stored bytes are
\* the bytes written and not yet read, in order.
C23_RbFifo ==
    HasBuffer =>
        /\ size = Len(fifo)
        /\ RbStored = fifo
        /\ (ret.op = "Read" /\ ret.err = Nil) =>
               /\ ret.n = ret.arg
               /\ SubSeq(ret.out, 1, ret.n) = SubSeq(ret.pre.fifo, 1, ret.n)
               /\ fifo = SubSeq(ret.pre.fifo, ret.n + 1, Len(ret.pre.fifo))
               /\ \A k \in (ret.n + 1)..ret.dstLen : ret.out[k] = 0

\* C23 witness: capacity 5; write 1,2,3; read 2; write 4,5,6,7; the Read of 5
\* gave 3,4,5,6,7 (the write and the read both crossed the end of buf).
C23_Witness ==
    /\ Cap = 5
    /\ ret.op = "Read"
    /\ ret.err = Nil
    /\ ret.n = 5
    /\ ret.pre.rb.readPos = 2
    /\ ret.pre.rb.writePos = 2
    /\ SubSeq(ret.out, 1, 5) = <<3, 4, 5, 6, 7>>

\* Free bytes of the single-threaded buffer before the last call.
RbPreFree == Cap - ret.pre.rb.size

\* C24: single-threaded Write: data longer than AvailableWriteSize() gives
\* (0, error) and leaves buf, size, readPos and writePos unchanged; data of at
\* most AvailableWriteSize() bytes gives (len(data), nil) and Size() grows by
\* exactly len(data).
C24_RbWrite ==
    (HasBuffer /\ ret.op = "Write") =>
        /\ AvailableWriteSize(ret.pre.rb) = RbPreFree
        /\ ret.arg > RbPreFree =>
               /\ ret.n = 0
               /\ ret.err # Nil
               /\ Rb = ret.pre.rb
        /\ ret.arg <= RbPreFree =>
               /\ ret.n = ret.arg
               /\ ret.err = Nil
               /\ RbSize(Rb) = ret.pre.rb.size + ret.arg
               /\ readPos = ret.pre.rb.readPos

\* C24 witness: a Write refused on a partly filled buffer whose positions
\* have moved, though one byte less would have fitted.
C24_Witness ==
    /\ ret.op = "Write"
    /\ ret.err = ErrRbSpace
    /\ ret.arg = RbPreFree + 1
    /\ ret.pre.rb.size > 0
    /\ ret.pre.rb.readPos > 0

\* C25: single-threaded Read(n, dst) is all-or-nothing: (0, error) when
\* n < 0, when n > len(dst) or when n > Size(), and then size, readPos,
\* writePos, buf and dst are unchanged, so that a later Read of a smaller n
\* still returns the oldest bytes; otherwise (n, nil) and Size() falls by
\* exactly n.
C25_RbReadAllOrNothing ==
    (HasBuffer /\ ret.op = "Read") =>
        IF ret.arg < 0 \/ ret.arg > ret.dstLen \/ ret.arg > ret.pre.rb.size
        THEN /\ ret.n = 0
             /\ ret.err # Nil
             /\ Rb = ret.pre.rb
             /\ ret.out = MakeDst(ret.dstLen)
             /\ \A k \in 0..size :
                    LET rd == RbRead(Rb, k, MakeDst(k))
                    IN  rd.n = k /\ rd.err = Nil /\ rd.dst = SubSeq(ret.pre.fifo, 1, k)
        ELSE /\ ret.n = ret.arg
             /\ ret.err = Nil
             /\ RbSize(Rb) = ret.pre.rb.size - ret.arg
             /\ writePos = ret.pre.rb.writePos
             /\ buffer = ret.pre.rb.buf

\* C25 witness: a Read asking for one byte more than is stored, into a
\* destination that is long enough, on data lying across the end of buf.
C25_Witness ==
    /\ ret.op = "Read"
    /\ ret.err = ErrRbInsufficientData
    /\ ret.arg = size + 1
    /\ ret.dstLen >= ret.arg
    /\ size > 1
    /\ readPos + size > Cap

\* C26: NewRingBuffer(capacity) returns (nil, error) for every capacity <= 0;
\* for every capacity > 0 it returns a buffer with Capacity() equal to the
\* requested capacity (no rounding), Size() = 0, IsEmpty() true and all
\* storage bytes zero.
C26_NewRingBuffer ==
    ret.op = "NewRingBuffer" =>
        IF ret.arg <= 0
        THEN /\ ret.out = NilRb
             /\ ret.err # Nil
             /\ ~HasBuffer
        ELSE /\ ret.err = Nil
             /\ ret.out # NilRb
             /\ ret.out = Rb
             /\ Capacity(Rb) = ret.arg
             /\ DOMAIN buffer = 0..(ret.arg - 1)
             /\ RbSize(Rb) = 0
             /\ IsEmpty(Rb)
             /\ readPos = 0
             /\ writePos = 0
             /\ \A i \in DOMAIN buffer : buffer[i] = 0

\* C26 witness: a buffer of a capacity that is not a power of two has been
\* made.
C26_Witness ==
    /\ ret.op = "NewRingBuffer"
    /\ ret.arg = 5
    /\ Cap = 5
    /\ ret.err = Nil

\* What C27 asks of one state.
C27_QueriesAgreeHere ==
    HasBuffer =>
        /\ RbSize(Rb) = Len(fifo)
        /\ RbSize(Rb) \in 0..Cap
        /\ Capacity(Rb) = Cap
        /\ AvailableWriteSize(Rb) = Capacity(Rb) - RbSize(Rb)
        /\ AvailableWriteSize(Rb) = Cap - Len(fifo)
        /\ IsEmpty(Rb) <=> RbSize(Rb) = 0
        /\ IsEmpty(Rb) <=> fifo = <<>>
        /\ IsFull(Rb) <=> RbSize(Rb) = Capacity(Rb)
        /\ IsFull(Rb) <=> Len(fifo) = Cap

\* C27: the state queries of the single-threaded buffer agree in every
\* reachable state: AvailableWriteSize() = Capacity() - Size(), IsEmpty()
\* holds exactly when Size() = 0, IsFull() exactly when Size() = Capacity(),
\* and Capacity() never changes.
C27_QueriesAgree ==
    /\ []C27_QueriesAgreeHere
    /\ [][Cardinality(DOMAIN buffer') = Cardinality(DOMAIN buffer)]_vars

\* C27 witness: a full buffer of capacity 3 whose data lies across the end of
\* buf.
C27_Witness ==
    /\ HasBuffer
    /\ Cap = 3
    /\ IsFull(Rb)
    /\ ~IsEmpty(Rb)
    /\ AvailableWriteSize(Rb) = 0
    /\ readPos > 0

\* Two buffers give the same results for every sequence of at most k calls
\* of Write and Read, the data written continuing the pattern at s.
RECURSIVE SameResults(_, _, _, _)
SameResults(a, b, s, k) ==
    \/ k = 0
    \/ /\ \A L \in 0..(Capacity(a) + 1) :
              LET wa == RbWrite(a, Data(s, L))
                  wb == RbWrite(b, Data(s, L))
              IN  /\ wa.n = wb.n
                  /\ wa.err = wb.err
                  /\ SameResults(wa.rb, wb.rb, s + wa.n, k - 1)
       /\ \A n \in 0..(Capacity(a) + 1) :
              LET ra == RbRead(a, n, MakeDst(n))
                  rb == RbRead(b, n, MakeDst(n))
              IN  /\ ra.n = rb.n
                  /\ ra.err = rb.err
                  /\ ra.dst = rb.dst
                  /\ SameResults(ra.rb, rb.rb, s, k - 1)

\* C28: single-threaded Reset, from any reachable state: afterwards
\* Size() = 0, readPos = 0, writePos = 0, IsEmpty() is true, Capacity() is
\* unchanged, and the buffer gives the results of a newly made buffer of that
\* capacity for every following sequence of Write and Read calls (checked for
\* sequences of up to ObsDepth calls).
C28_RbReset ==
    ret.op = "Reset" =>
        /\ RbSize(Rb) = 0
        /\ readPos = 0
        /\ writePos = 0
        /\ IsEmpty(Rb)
        /\ Capacity(Rb) = Capacity(ret.pre.rb)
        /\ buffer = ret.pre.rb.buf
        /\ SameResults(Rb, NewRingBuffer(Cap).rb, seqno, ObsDepth)

\* C28 witness: a Reset of a buffer that held data lying across the end of
\* buf; old bytes remain in storage.
C28_Witness ==
    /\ ret.op = "Reset"
    /\ ret.pre.rb.size > 1
    /\ ret.pre.rb.readPos + ret.pre.rb.size > Cap
    /\ \E i \in DOMAIN buffer : buffer[i] # 0

\* ---- the lock-free buffer, publish ordering

\* Storage indices an in-flight Write copies to (none when no Write is
\* between its cursor load and its cursor store).
WriteTouches ==
    IF prod.pc = "copy" THEN {prod.cp[i][1] : i \in 1..Len(prod.cp)} ELSE {}

\* Storage indices an in-flight Read copies from.
ReadTouches ==
    IF cons.pc = "r_copy" THEN {cons.cp[i][2] : i \in 1..Len(cons.cp)} ELSE {}

\* The store of writePos comes after every byte copy of the Write, the store
\* of readPos after every byte copy of the Read.
C29_StoreAfterCopies ==
    /\ writePos' # writePos =>
           /\ prod.pc = "copy"
           /\ prod.k > Len(prod.cp)
           /\ Len(prod.cp) = Len(prod.data)
           /\ \A j \in 1..Len(prod.data) :
                  buffer[(prod.writePos + j - 1) % size] = prod.data[j]
           /\ buffer' = buffer
    /\ (readPos' # readPos /\ cons.pc = "r_copy") =>
           /\ cons.k > Len(cons.cp)
           /\ Len(cons.cp) = cons.toRead
           /\ \A j \in 1..cons.toRead :
                  cons.dst[j] = buffer[(cons.readPos + j - 1) % size]

\* C29: publish ordering: in Write every byte copy into storage happens
\* before the store of the new writePos, in Read every byte copy out of
\* storage happens before the store of the new readPos; the storage indices
\* touched by an in-flight Write and those touched by an in-flight Read are
\* disjoint in every reachable state, and every index an in-flight Write
\* touches lies outside the unread region.
C29_PublishOrdering ==
    /\ [](WriteTouches \cap ReadTouches = {} /\ WriteTouches \cap UnreadIdx = {})
    /\ [][C29_StoreAfterCopies]_vars

\* C29 witness: a Write and a Read are both in the middle of their byte
\* copies, the Write's range lying across the end of storage.
C29_Witness ==
    /\ prod.pc = "copy"
    /\ prod.k > 1
    /\ prod.k <= Len(prod.cp)
    /\ cons.pc = "r_copy"
    /\ cons.k > 1
    /\ cons.k <= Len(cons.cp)
    /\ \E i \in 1..(Len(prod.cp) - 1) : prod.cp[i + 1][1] < prod.cp[i][1]

\* ---- the lock-free buffer, linearizability

\* C30 (as stated): every concurrent history of one producer calling Write
\* and one consumer calling Read has a total order of its completed calls,
\* consistent with each thread's program order and with real-time order, in
\* which every Write fails exactly when its length exceeds the free space at
\* that point and every successful Read returns exactly min(M, occupancy at
\* that point) bytes.
C30_Linearizable == lin.strict # {}

\* C30 (amended): every such history has a total order of its completed
\* calls, consistent with program order and real-time order, in which every
\* Write fails exactly when its length exceeds the free space at that point,
\* every failed Read finds occupancy 0 at that point, and every successful
\* Read returns at least 1 and at most min(M, occupancy at that point) bytes.
C30_LinearizableRelaxed == lin.relaxed # {}

\* C30 witness: a Read has returned fewer bytes than its destination holds
\* while no order with the strict results is left, the bytes read being
\* still a prefix of the bytes written.
C30_Witness ==
    /\ lin.strict = {}
    /\ lin.relaxed # {}
    /\ Len(got) > 0
    /\ IsPrefix(got, written)
    /\ cons.pc = "idle"
    /\ prod.pc = "idle"

\* ---- the lock-free buffer, failures and stale views

\* What one step says of the failures: a Write that returns
\* ErrInsufficientSpace does so at its load of readPos, the free space being
\* then smaller than its length; a Read loads the true writePos, readPos
\* stays as it is until the Read's own load of it, and a Read that returns
\* ErrInsufficientData had occupancy 0 at its load of writePos; the
\* consumer's estimate of the available data is never above the true one.
C31_FailureSteps ==
    /\ (prod.pc = "avail" /\ prod'.pc = "retry")
           => Len(prod.data) > size - Occ(writePos, readPos)
    /\ (prod.pc = "avail" /\ prod'.pc = "load")
           => Len(prod.data) <= size - Occ(writePos, readPos)
    /\ (cons.pc = "read" /\ cons'.pc = "r_avail") => cons'.aw = writePos
    /\ cons.pc = "r_avail" => readPos' = readPos
    /\ (cons.pc = "r_avail" /\ cons'.pc = "idle") => Occ(cons.aw, readPos) = 0
    /\ (cons.pc = "r_avail" /\ cons'.pc = "r_load") => Occ(cons.aw, readPos) > 0
    /\ cons.pc = "r_avail" => Occ(cons.aw, readPos) <= Occ(writePos, readPos)

\* What every state says of the stale views: the space a Write has found,
\* and the data a Read has found, are still there until the call is over.
C31_StaleViews ==
    /\ prod.pc \in {"load", "copy"} => Len(prod.data) <= size - Occ(writePos, readPos)
    /\ cons.pc \in {"r_load", "r_copy"} =>
           /\ cons.toRead >= 1
           /\ cons.toRead <= Occ(writePos, readPos)

\* C31: a Write returns ErrInsufficientSpace only if the free space was
\* smaller than its length at the instant it loaded readPos, and a Read
\* returns ErrInsufficientData only if the buffer was empty at the instant it
\* loaded writePos; a stale view of the other thread's cursor only
\* under-estimates the free space (producer) or the available data
\* (consumer).
C31_NoSpuriousFailures ==
    /\ []C31_StaleViews
    /\ [][C31_FailureSteps]_vars

\* C31 witness: a Write has just failed for lack of space while a Read is
\* about to take fewer bytes than are stored and than its destination holds.
C31_Witness ==
    /\ prod.pc = "retry"
    /\ cons.pc = "r_load"
    /\ cons.toRead < Occ(writePos, readPos)
    /\ cons.toRead < Len(cons.dst)

\* ---- the lock-free buffer, placement of the written bytes

\* Storage index of the first byte of the last call, a Write.
PreStart == ret.pre.writePos % size

\* The storage indices a Write of L bytes from index start is to fill: one
\* range when it fits before the end of storage, else [start, size) and
\* [0, L - (size - start)).
WriteRanges(start, L) ==
    IF start + L <= size
    THEN start..(start + L - 1)
    ELSE (start..(size - 1)) \cup (0..(L - (size - start) - 1))

\* C32: a successful Write of L bytes stores data[i] at storage index
\* (old writePos + i) & mask for every i in 0..L-1, as one range when it fits
\* before the end of storage and otherwise as the two ranges [start, Size)
\* then [0, L - (Size - start)); every other storage byte is unchanged.
C32_WritePlacement ==
    (ret.op = "Write" /\ ret.err = Nil /\ ret.n >= 1) =>
        LET L == ret.n
            T == {(ret.pre.writePos + i) % size : i \in 0..(L - 1)}
        IN  /\ L = ret.arg
            /\ \A i \in 0..(L - 1) :
                   buffer[(ret.pre.writePos + i) % size] = ret.out[i + 1]
            /\ T = WriteRanges(PreStart, L)
            /\ Cardinality(T) = L
            /\ \A k \in 1..(size - PreStart) :
                   k <= L => buffer[PreStart + k - 1] = ret.out[k]
            /\ \A k \in 1..L :
                   k > size - PreStart => buffer[k - (size - PreStart) - 1] = ret.out[k]
            /\ \A j \in (DOMAIN buffer) \ T : buffer[j] = ret.pre.buffer[j]

\* C32 witness: a Write in two ranges, both of more than one byte, into
\* storage of which a byte it does not touch holds earlier data.
C32_Witness ==
    /\ ret.op = "Write"
    /\ ret.err = Nil
    /\ size - PreStart >= 2
    /\ ret.n - (size - PreStart) >= 2
    /\ \E j \in DOMAIN buffer :
           /\ j \notin WriteRanges(PreStart, ret.n)
           /\ buffer[j] # 0

\* ---- the lock-free buffer, transfers of the whole storage

\* C33: on an empty buffer, for every value of writePos & mask (0 included,
\* where the computed end index equals the start index, and Size = 1
\* included), a Write of exactly Size bytes succeeds and stores all Size
\* bytes, and the following Read into a destination of length Size, or
\* ReadSlices, returns those Size bytes in order.
C33_FullCapacityTransfer ==
    (ret.op = "Write" /\ ret.arg = size /\ ret.pre.writePos = ret.pre.readPos) =>
        LET rd == ReadResult(buffer, size, mask, writePos, readPos, MakeDst(size))
            sl == ReadSlicesResult(size, mask, writePos, readPos)
        IN  /\ ret.n = size
            /\ ret.err = Nil
            /\ Occ(writePos, readPos) = size
            /\ \A i \in 0..(size - 1) : buffer[(readPos + i) % size] = ret.out[i + 1]
            /\ rd.n = size
            /\ rd.err = Nil
            /\ rd.out = ret.out
            /\ rd.readPos = writePos
            /\ sl.total = size
            /\ ViewBytes(buffer, sl.first) \o ViewBytes(buffer, sl.second) = ret.out

\* C33 witness: a Write of the whole storage (more than one byte) of an
\* empty buffer whose cursors have gone round to storage index 0.
C33_Witness ==
    /\ ret.op = "Write"
    /\ ret.err = Nil
    /\ ret.arg = size
    /\ size > 1
    /\ ret.pre.writePos = ret.pre.readPos
    /\ ret.pre.writePos > 0
    /\ ret.pre.writePos % size = 0

\* ---- the lock-free buffer, slice bounds

SliceOk(e) == 0 <= e.lo /\ e.lo <= e.hi /\ e.hi <= e.cap

ViewOk(v) == v = Nil \/ (0 <= v[1] /\ v[1] <= v[2] /\ v[2] <= Cardinality(DOMAIN buffer))

\* C34: in every reachable state of one producer and one consumer, and for
\* data and destinations shorter than, as long as and longer than Size,
\* every slice expression evaluated by Write, Read, ReadSlices and
\* PeekContiguous is within the bounds of storage and of the caller's slice,
\* and every byte copied lies within both.
C34_NoOutOfRange ==
    /\ Cardinality(DOMAIN buffer) = size
    /\ prod.pc = "load" =>
           LET es == WriteSliceExprs(writePos % size, (writePos + prod.dataLen) % size,
                                 prod.dataLen, size)
           IN  /\ prod.dataLen = Len(prod.data)
               /\ \A i \in DOMAIN es : SliceOk(es[i])
    /\ prod.pc = "copy" =>
           \A k \in DOMAIN prod.cp :
               /\ prod.cp[k][1] \in DOMAIN buffer
               /\ prod.cp[k][2] + 1 \in DOMAIN prod.data
    /\ cons.pc = "r_load" =>
           LET es == ReadSliceExprs(readPos % size, (readPos + cons.toRead) % size,
                                cons.toRead, size, Len(cons.dst))
           IN  \A i \in DOMAIN es : SliceOk(es[i])
    /\ cons.pc = "r_copy" =>
           \A k \in DOMAIN cons.cp :
               /\ cons.cp[k][1] + 1 \in DOMAIN cons.dst
               /\ cons.cp[k][2] \in DOMAIN buffer
    /\ cons.pc = "hold" => ViewOk(cons.views[1]) /\ ViewOk(cons.views[2])

\* C34 witness: a Write of more bytes than the storage holds has been
\* refused while a Read into a destination longer than the storage is about
\* to copy in two parts.
C34_Witness ==
    /\ prod.pc = "retry"
    /\ Len(prod.data) > size
    /\ cons.pc = "r_load"
    /\ Len(cons.dst) > size
    /\ (readPos % size) + cons.toRead > size

\* ---- the lock-free buffer, draining through PeekContiguous

\* C35: with no concurrent Write, PeekContiguous returns at least one byte
\* whenever AvailableRead() > 0, and PeekContiguous followed by
\* Consume(len(view)), done twice, leaves the buffer empty, the two views one
\* after the other being the unread bytes in FIFO order; the second view is
\* the wrapped remainder, and is empty when the data does not wrap.
C35_PeekConsumeDrains ==
    LET v1 == PeekContiguousResult(size, mask, writePos, readPos)
        c1 == ConsumeResult(writePos, readPos, ViewLen(v1))
        v2 == PeekContiguousResult(size, mask, writePos, c1.readPos)
        c2 == ConsumeResult(writePos, c1.readPos, ViewLen(v2))
        v3 == PeekContiguousResult(size, mask, writePos, c2.readPos)
    IN  /\ Occ(writePos, readPos) > 0 => ViewLen(v1) >= 1
        /\ ViewLen(v1) <= Occ(writePos, readPos)
        /\ c1.err = Nil
        /\ Occ(writePos, c1.readPos) = Occ(writePos, readPos) - ViewLen(v1)
        /\ Occ(writePos, c1.readPos) > 0 => ViewLen(v2) >= 1
        /\ c2.err = Nil
        /\ Occ(writePos, c2.readPos) = 0
        /\ c2.readPos = writePos
        /\ v3 = Nil
        /\ ViewBytes(buffer, v1) \o ViewBytes(buffer, v2) = UnreadBytes
        /\ UnreadBytes = fifo
        /\ ViewLen(v2) > 0 <=> Wraps
        /\ ViewLen(v2) > 0 => v2[1] = 0
        /\ ret.op = "PeekContiguous" => ret.out[1] = v1

\* C35 witness: PeekContiguous has returned the first part, of more than one
\* byte, of data whose wrapped remainder is more than one byte.
C35_Witness ==
    /\ ret.op = "PeekContiguous"
    /\ ret.n >= 2
    /\ Occ(writePos, readPos) - ret.n >= 2
    /\ Wraps

\* ---- the lock-free buffer, cursor overflow

\* C36: with cursors of CursorBits bits (arithmetic modulo Modulus) and Size
\* a power of two not larger than Modulus / 2, the occupancy
\* (writePos - readPos) mod Modulus stays in [0, Size] and FIFO order is
\* kept, for every sequence of calls, those included that carry writePos and
\* readPos past Modulus - 1 and back to small values.
C36_CursorOverflow ==
    /\ IsPow2(size)
    /\ size <= TopPow2
    /\ writePos \in 0..(Modulus - 1)
    /\ readPos \in 0..(Modulus - 1)
    /\ (writePos - readPos) % Modulus \in 0..size
    /\ Len(fifo) = (writePos - readPos) % Modulus
    /\ \A k \in 1..Len(fifo) : buffer[(readPos + k - 1) % size] = fifo[k]
    /\ (ret.op = "Write" /\ ret.arg >= 1) =>
           /\ ret.err = Nil <=> ret.arg <= size - Len(ret.pre.fifo)
           /\ ret.err = Nil => fifo = ret.pre.fifo \o ret.out
    /\ (ret.op = "Read" /\ ret.arg >= 1) =>
           /\ ret.n = Min(ret.arg, Len(ret.pre.fifo))
           /\ ret.err = Nil <=> ret.pre.fifo # <<>>
           /\ Take(ret.out, ret.n) = Take(ret.pre.fifo, ret.n)
           /\ fifo = Drop(ret.pre.fifo, ret.n)

\* C36 witness: a Read from a buffer of the largest Size whose writePos has
\* gone past Modulus - 1 to a small value while readPos has not, the bytes
\* read lying on both sides of the overflow; the Read takes readPos past
\* Modulus - 1 as well.
C36_Witness ==
    /\ size = TopPow2
    /\ ret.op = "Read"
    /\ ret.err = Nil
    /\ ret.pre.writePos < ret.pre.readPos
    /\ ret.pre.readPos + ret.n > Modulus
    /\ ret.n >= 2
    /\ readPos < ret.pre.readPos
    /\ fifo # <<>>

\* ---- the lock-free buffer, two threads calling Write

\* Thread t is between its load of writePos and its store of it.
Copying(t) == prod[t].pc = "copy"

\* Thread t stores writePos and returns success in this step.
Stores(t) == Copying(t) /\ prod'[t].pc = "idle"

\* Both threads have loaded the same writePos: they copy into storage from
\* the same index on.
C37_SameIndices ==
    (Copying(1) /\ Copying(2) /\ prod[1].writePos = prod[2].writePos) =>
        /\ prod[1].cp[1][1] = prod[2].cp[1][1]
        /\ {prod[1].cp[k][1] : k \in DOMAIN prod[1].cp}
               \cap {prod[2].cp[k][1] : k \in DOMAIN prod[2].cp} # {}

\* A thread that stores a position loaded before the other thread's store
\* leaves writePos short of the bytes accepted; writePos is never ahead of
\* them, and while it is level with them storage holds them all in the
\* order of their acceptance.
C37_LostUpdateStep ==
    \A t \in 1..2 :
        (Stores(t) /\ prod[t].writePos # writePos) =>
            /\ writePos' = prod[t].writePos + prod[t].dataLen
            /\ writePos' < Len(written')
            /\ Len(written') = Len(written) + prod[t].dataLen

C37_CursorBehind ==
    /\ writePos <= Len(written)
    /\ (prod[1].pc = "idle" /\ prod[2].pc = "idle" /\ writePos = Len(written)
            /\ Len(written) <= size) =>
           \A k \in 1..Len(written) : buffer[k - 1] = written[k]

\* C37: with two threads calling Write concurrently there is an interleaving
\* in which both load the same writePos and copy into the same storage
\* indices, so that a Write that returned success has its bytes overwritten
\* or writePos advances by less than the number of bytes accepted: whenever
\* a thread stores over the other's store, bytes accepted are lost to
\* writePos.
C37_TwoWritersRace ==
    /\ [](C37_SameIndices /\ C37_CursorBehind)
    /\ [][C37_LostUpdateStep]_vars

\* C37 witness: both threads have returned success from one Write each,
\* begun from the same writePos; writePos has advanced by less than the
\* bytes accepted, and a byte accepted is no longer in storage.
C37_Witness ==
    /\ prod[1] = IdleWriter(1)
    /\ prod[2] = IdleWriter(1)
    /\ Len(written) >= 2
    /\ writePos < Len(written)
    /\ \E k \in 1..Len(written) : \A j \in DOMAIN buffer : buffer[j] # written[k]

\* ---- the single-threaded buffer, its invariant

\* C38: in every state reachable by Write, Read and Reset calls,
\* 0 <= size <= Capacity(), 0 <= readPos < Capacity(),
\* 0 <= writePos < Capacity() and writePos = (readPos + size) mod Capacity(),
\* so that writePos = readPos exactly when the buffer is empty or full.
C38_RbInvariant ==
    HasBuffer =>
        /\ Cap >= 1
        /\ DOMAIN buffer = 0..(Cap - 1)
        /\ size \in 0..Cap
        /\ readPos \in 0..(Cap - 1)
        /\ writePos \in 0..(Cap - 1)
        /\ writePos = (readPos + size) % Cap
        /\ writePos = readPos <=> (size = 0 \/ size = Cap)

\* C38 witness: a Write that wrapped has filled a buffer of more than one
\* byte, writePos meeting readPos away from index 0.
C38_Witness ==
    /\ HasBuffer
    /\ ret.op = "Write"
    /\ ret.err = Nil
    /\ Cap > 1
    /\ size = Cap
    /\ writePos = readPos
    /\ readPos > 0
    /\ ret.pre.rb.writePos > writePos

\* ---- the two buffers side by side

\* The bytes stored in the single-threaded buffer rb, oldest first.
StoredIn(rb) == [k \in 1..rb.size |-> rb.buf[(rb.readPos + k - 1) % Cardinality(DOMAIN rb.buf)]]

\* The last call returned the same byte count, the same success or failure
\* and, for a Read, the same bytes from both buffers.
SameReturn ==
    /\ ret.n = ret.sn
    /\ ret.err = Nil <=> ret.serr = Nil
    /\ ret.op = "Read" => Take(ret.out, ret.n) = Take(ret.sout, ret.sn)

\* C39 (as stated): for every requested capacity c > 0 and every sequence of
\* Write(data) and Read(n, dst) calls with len(dst) = n, the single-threaded
\* buffer built by NewRingBuffer(c) and the lock-free buffer built by New(c)
\* report the same capacity and return the same byte counts, the same
\* success or failure and the same bytes on every call.
C39_SameBehaviour ==
    /\ Cardinality(DOMAIN single.buf) = size
    /\ SameReturn

\* C39 (amended): the same holds for every requested capacity c that is a
\* power of two and every sequence of calls in which no Read asks for more
\* bytes than are stored while some are stored, and then the two buffers
\* also store the same bytes.  For any other c the capacities differ (c
\* against the next power of two); and the first Read of more bytes than the
\* bytes stored, some being stored, fails in the single-threaded buffer and
\* returns the stored bytes in the lock-free one.
C39_SameBehaviourWhere ==
    /\ IsPow2(ret.c) =>
           /\ Cardinality(DOMAIN single.buf) = size
           /\ ~ret.over =>
                  /\ SameReturn
                  /\ StoredIn(single) = UnreadBytes
           /\ (/\ ret.op = "Read"
               /\ ret.pre.single.size > 0
               /\ ret.arg > ret.pre.single.size
               /\ StoredIn(ret.pre.single)
                      = [k \in 1..Occ(ret.pre.writePos, ret.pre.readPos)
                             |-> ret.pre.buffer[Idx(ret.pre.readPos + k - 1)]]) =>
                  /\ ret.over
                  /\ ret.sn = 0
                  /\ ret.serr = ErrRbInsufficientData
                  /\ ret.n = ret.pre.single.size
                  /\ ret.err = Nil
                  /\ single = ret.pre.single
    /\ ~IsPow2(ret.c) =>
           /\ Cardinality(DOMAIN single.buf) = ret.c
           /\ size > ret.c

\* C39 witness: on buffers asked for with capacity 4, after calls that
\* returned the same from both, a Read of bytes lying on both sides of the
\* end of storage has returned the same bytes from both.
C39_Witness ==
    /\ ret.c = 4
    /\ ~ret.over
    /\ ret.op = "Read"
    /\ ret.n >= 2
    /\ ret.sn = ret.n
    /\ Take(ret.out, ret.n) = Take(ret.sout, ret.sn)
    /\ (ret.pre.readPos % size) + ret.n > size
    /\ ret.pre.single.readPos + ret.n > Cardinality(DOMAIN single.buf)

====
